---- MODULE Spec2Model ----
(***************************************************************************)
(* The OAuth correlation provider of chuk-mcp-linkedin                     *)
(* (src/chuk_mcp_linkedin/oauth/provider.py) as a state machine.           *)
(*                                                                         *)
(* Every handler of LinkedInOAuthProvider is an asyncio coroutine.  A      *)
(* handler in flight is a task: its arguments, its local variables and the *)
(* await it is suspended at.  One action is the effect of the awaited call *)
(* followed by the synchronous code up to the next await, so handlers      *)
(* interleave exactly at their await points.                               *)
(*                                                                         *)
(* The token store (chuk_mcp_server.oauth.TokenStore) is a library outside *)
(* this repository; its operations are modelled from the contract of       *)
(* spec.md section 4.3.                                                    *)
(***************************************************************************)
EXTENDS Naturals, Sequences, FiniteSets, Bags, TLC

VARIABLES
    proxy_mode,     \* self.proxy_mode, read from OAUTH_PROXY_MODE at construction
    pending,        \* self._pending_authorizations: state token -> record
    cache,          \* _authorization_code_cache: code -> record
    clients,        \* token store: client registrations
    store_codes,    \* token store: authorization codes, code -> record
    ext_tokens,     \* token store: linked external tokens, user_id -> record
    issued,         \* token store: local access/refresh token pairs
    now,            \* time.time(), in seconds
    tasks,          \* handler invocations suspended at an await
    returned,       \* the invocation that returned or raised in the last step
    steps,          \* number of counted steps so far (see MaxSteps)
    flows,          \* history: what authorize was given for each generated state, and
                    \* whether a callback of the flow failed at LinkedIn's code exchange
    minted,         \* history: code -> the state and the user it was minted for, and
                    \* whether its callback was called after the flow had failed, and
                    \* when it was minted
    exchanged,      \* history: code -> the code_verifiers of the exchanges that returned a token
    peer_store_codes,   \* a second provider instance's token store: authorization codes
    peer_ext_tokens,    \* a second provider instance's token store: linked external tokens
    peer_issued,        \* a second provider instance's token store: local token pairs
    peer_exchanged,     \* history: code -> the exchanges on the second instance that returned a token
    oauth_provider,     \* async_server.oauth_provider: the provider setup_oauth installed
    hashes,             \* the values hash() has given in this process: string -> value
    draft,              \* the manager's current draft
    requests,           \* the HTTP requests linkedin_publish has sent to LinkedIn
    posts               \* the posts LinkedIn has created

\* a second provider instance of the process: its own token store
peervars == <<peer_store_codes, peer_ext_tokens, peer_issued, peer_exchanged>>

\* the server around the provider
appvars == <<oauth_provider, hashes, draft, requests, posts>>

\* what lies outside the provider instance
elsewhere == <<peervars, appvars>>

vars == <<proxy_mode, pending, cache, clients, store_codes, ext_tokens, issued,
          now, tasks, returned, steps, flows, minted, exchanged, elsewhere>>

-----------------------------------------------------------------------------
(* Bounds of the model. *)

\* client registrations in one behaviour
MaxClients == 1
\* steps in one behaviour: clock ticks, saved drafts, and invocations of
\* authorize, handle_external_callback, exchange_authorization_code (on
\* either instance), exchange_refresh_token and linkedin_publish that get
\* past their first check (one rejected at once leaves everything as it was
\* and is not counted)
MaxSteps == 4
\* handler invocations in flight at the same time
MaxTasks == 2
\* ticks of the clock of the overlapping callbacks
MaxElapse == 1

(* Program constants. *)

\* provider.py:249  "if code_age < 600"
CodeTTL == 600

\* the clock advances by one code lifetime
TickStep == CodeTTL

\* The pending-authorization lifetime the specification recommends ("10
\* minutes - matches authorization-code lifetime conventions"); the provider
\* itself configures none.
PendingTTL == CodeTTL

-----------------------------------------------------------------------------
(* Values. *)

\* Python's None, for the optional string parameters
None == "None"

\* Python truthiness of an optional string
Truthy(s) == s # None /\ s # ""

\* "x or default"
OrElse(s, d) == IF Truthy(s) THEN s ELSE d

\* the n-th value drawn from secrets.token_urlsafe(32)
TokenUrlsafe(n) == <<"g1", "g2", "g3", "g4", "g5", "g6", "g7", "g8">>[n]

\* the n-th authorization code generated by the token store
StoreCode(n) == <<"code1", "code2", "code3", "code4", "code5", "code6", "code7", "code8">>[n]

\* the n-th client_id generated by the token store
StoreClientId(n) == <<"client1", "client2", "client3", "client4", "client5", "client6", "client7", "client8">>[n]

\* the secret the token store generates with the n-th client_id
StoreClientSecret(n) == <<"secret1", "secret2", "secret3", "secret4", "secret5", "secret6", "secret7", "secret8">>[n]

\* the n-th local access/refresh token pair generated by the token store
StoreAccessToken(n) == <<"mcp_at1", "mcp_at2", "mcp_at3", "mcp_at4", "mcp_at5", "mcp_at6", "mcp_at7", "mcp_at8">>[n]
StoreRefreshToken(n) == <<"mcp_rt1", "mcp_rt2", "mcp_rt3", "mcp_rt4", "mcp_rt5", "mcp_rt6", "mcp_rt7", "mcp_rt8">>[n]

\* PKCE S256: the challenge a verifier hashes to
S256(v) == CASE v = "v1" -> "h1"
             [] v = "v2" -> "h2"
             [] OTHER -> "h0"

\* urllib.parse.quote_plus, as urlencode applies it to one value: the
\* unreserved characters (all that token_urlsafe produces) are kept, a space
\* becomes "+", anything else is percent-escaped
QuotePlus(s) == CASE s = "openid profile w_member_social email" ->
                           "openid+profile+w_member_social+email"
                  [] s = "https://mcp.example/cb" -> "https%3A%2F%2Fmcp.example%2Fcb"
                  [] OTHER -> s

\* urllib.parse.unquote_plus, what the receiver of the URL reads back
UnquotePlus(s) == CASE s = "openid+profile+w_member_social+email" ->
                             "openid profile w_member_social email"
                    [] s = "https%3A%2F%2Fmcp.example%2Fcb" -> "https://mcp.example/cb"
                    [] OTHER -> s

\* a function with key k removed / set
Without(f, k) == [x \in DOMAIN f \ {k} |-> f[x]]
With(f, k, v) == [x \in DOMAIN f \cup {k} |-> IF x = k THEN v ELSE f[x]]

\* the empty dict
EmptyDict == [x \in {} |-> None]

-----------------------------------------------------------------------------
(* Inputs. *)

\* dict.get(key, default)
DictGet(d, k, default) == IF k \in DOMAIN d THEN d[k] ELSE default

\* client_metadata given to register_client: with a redirect URI, and with an
\* empty list of them
RegisterInputs ==
    { [client_name |-> "app", redirect_uris |-> <<"r1">>],
      [client_name |-> "app", redirect_uris |-> <<>>] }

\* further client_metadata: without redirect_uris, and without a client_name
\* but with two redirect URIs
RegisterInputsMore ==
    RegisterInputs \cup { [client_name |-> "app"],
                          [redirect_uris |-> <<"r1", "r3">>] }

Params(c, r, s, sc, ch, m) ==
    [client_id |-> c, redirect_uri |-> r, state |-> s, scope |-> sc,
     code_challenge |-> ch, code_challenge_method |-> m]

\* AuthorizationParams given to authorize: with and without a state, with and
\* without PKCE, a state that equals a generated one, an unknown client and an
\* unregistered redirect URI
AuthorizeInputs ==
    { Params(StoreClientId(1), "r1", "s1", "profile", None, None),
      Params(StoreClientId(1), "r1", None, "w_member_social", "h1", "S256"),
      Params(StoreClientId(1), "r1", TokenUrlsafe(1), "openid profile", "h1", "S256"),
      Params("nobody", "r1", "s1", "profile", None, None),
      Params(StoreClientId(1), "r2", "s1", "profile", None, None) }

\* the state a callback arrives with: a generated one, or one never generated
CallbackStates == DOMAIN flows \cup {"unknown-state"}

\* (code, client_id, redirect_uri, code_verifier) an exchange presents: a
\* generated code with no, the right and a wrong verifier, with another
\* client_id and another redirect_uri; and a code never generated
ExchangeInputs ==
    { <<c, i[1], i[2], i[3]>> :
        c \in DOMAIN minted,
        i \in { <<StoreClientId(1), "r1", None>>,
                <<StoreClientId(1), "r1", "v1">>,
                <<StoreClientId(1), "r1", "v2">>,
                <<"nobody", "r1", "v1">>,
                <<StoreClientId(1), "r2", "v1">> } }
    \cup { <<"badcode", StoreClientId(1), "r1", "v1">> }

\* provider.py:576  expires_in default of a LinkedIn token response
DefaultExpiresIn == 5184000

\* token responses of LinkedIn's accessToken endpoint: one without and one
\* with a refresh token
LinkedInTokens ==
    { [access_token |-> "li_at1", refresh_token |-> None, expires_in |-> CodeTTL],
      [access_token |-> "li_at2", refresh_token |-> "li_rt2", expires_in |-> CodeTTL] }

\* the member a LinkedIn access token belongs to: "sub" of the userinfo response
UserOf(access_token) == IF access_token = "li_at1" THEN "u1" ELSE "u2"

-----------------------------------------------------------------------------
(* Tasks. *)

NoReturn == [op |-> "none"]

Ok(v) == [ok |-> TRUE, value |-> v]
Err(e) == [ok |-> FALSE, error |-> e]

Return(op, args, r) == [op |-> op, args |-> args, result |-> r]

\* an exchange returning; prior is the history of the tokens already returned
\* for the code when the exchange was called
ExchangeReturn(args, prior, r) == [op |-> "exchange", args |-> args, prior |-> prior, result |-> r]

\* the exchanges that returned a token for a code so far
Exchanged(code) == IF code \in DOMAIN exchanged THEN exchanged[code] ELSE <<>>

\* the tasks in flight are a bag: two invocations may be suspended at the same
\* await with the same arguments and locals
Suspended == BagToSet(tasks)

\* a further invocation may be taken in flight
CanSpawn == BagCardinality(tasks) < MaxTasks

\* the bag with a new task r, with task r resumed as r2, with task r finished
Spawn(r) == tasks (+) SetToBag({r})
Resume(r, r2) == (tasks (-) SetToBag({r})) (+) SetToBag({r2})
Finish(r) == tasks (-) SetToBag({r})

\* a further counted step may be taken
CanStep == steps < MaxSteps

-----------------------------------------------------------------------------
(* Token store (chuk_mcp_server.oauth.TokenStore). *)

\* validate_client(client_id, redirect_uri)
validate_client(client_id, redirect_uri) ==
    \E c \in clients : c.client_id = client_id /\ redirect_uri \in c.redirect_uris

\* the client_id register_client generates next
NextClientId == StoreClientId(Cardinality(clients) + 1)

\* the client_secret register_client generates next
NextClientSecret == StoreClientSecret(Cardinality(clients) + 1)

\* register_client(client_name, redirect_uris): the registrations afterwards
StoreRegisterClient(client_name, redirect_uris) ==
    clients \cup {[client_id |-> NextClientId,
                   client_secret |-> NextClientSecret,
                   client_name |-> client_name,
                   redirect_uris |-> {redirect_uris[i] : i \in DOMAIN redirect_uris}]}

\* the code create_authorization_code generates next
NextCode == StoreCode(Cardinality(DOMAIN minted) + 1)

\* the record of an authorization code
CodeRecord(user_id, client_id, redirect_uri, scope, code_challenge, code_challenge_method) ==
    [user_id |-> user_id, client_id |-> client_id, redirect_uri |-> redirect_uri,
     scope |-> scope, code_challenge |-> code_challenge,
     code_challenge_method |-> code_challenge_method, created_at |-> now]

\* PKCE verification: hash the verifier and compare it with the challenge
PkceOk(rec, code_verifier) ==
    Truthy(rec.code_challenge) =>
        /\ Truthy(code_verifier)
        /\ S256(code_verifier) = rec.code_challenge

\* validate_authorization_code accepts the code: known, unexpired, bound to
\* this client and redirect URI, PKCE verified
StoreCodeValid(code, client_id, redirect_uri, code_verifier) ==
    /\ code \in DOMAIN store_codes
    /\ now - store_codes[code].created_at < CodeTTL
    /\ store_codes[code].client_id = client_id
    /\ store_codes[code].redirect_uri = redirect_uri
    /\ PkceOk(store_codes[code], code_verifier)

\* the record of a linked external token
ExternalToken(access_token, refresh_token, expires_in) ==
    [access_token |-> access_token, refresh_token |-> refresh_token,
     expires_in |-> expires_in, expires_at |-> now + expires_in]

\* is_external_token_expired(user_id, "linkedin")
is_external_token_expired(user_id) ==
    user_id \in DOMAIN ext_tokens /\ now >= ext_tokens[user_id].expires_at

\* create_access_token(user_id, client_id, scope): the pair it generates
NewAccessToken(user_id, client_id, scope) ==
    [access_token |-> StoreAccessToken(Cardinality(issued) + 1),
     refresh_token |-> StoreRefreshToken(Cardinality(issued) + 1),
     user_id |-> user_id, client_id |-> client_id, scope |-> scope]

-----------------------------------------------------------------------------
(* LinkedInOAuthClient. *)

AUTHORIZATION_URL == "https://www.linkedin.com/oauth/v2/authorization"

\* " ".join(DEFAULT_SCOPES)
DEFAULT_SCOPES == "openid profile w_member_social email"

\* get_authorization_url(state): the URL and its urlencoded query; client_id
\* and redirect_uri are those of the LinkedIn application
get_authorization_url(state) ==
    [url |-> AUTHORIZATION_URL,
     query |-> [response_type |-> QuotePlus("code"),
                client_id |-> QuotePlus("linkedin-app"),
                redirect_uri |-> QuotePlus("https://mcp.example/cb"),
                state |-> QuotePlus(state),
                scope |-> QuotePlus(DEFAULT_SCOPES)]]

-----------------------------------------------------------------------------
(* Init: the provider as constructed, over an empty store. *)

\* manager.get_current_draft() when there is no draft
NoDraft == [draft_id |-> None]

Init ==
    /\ proxy_mode \in BOOLEAN
    /\ pending = EmptyDict
    /\ cache = EmptyDict
    /\ clients = {}
    /\ store_codes = EmptyDict
    /\ ext_tokens = EmptyDict
    /\ issued = {}
    /\ now = 0
    /\ tasks = EmptyBag
    /\ returned = NoReturn
    /\ steps = 0
    /\ flows = EmptyDict
    /\ minted = EmptyDict
    /\ exchanged = EmptyDict
    /\ peer_store_codes = EmptyDict
    /\ peer_ext_tokens = EmptyDict
    /\ peer_issued = {}
    /\ peer_exchanged = EmptyDict
    /\ oauth_provider = None
    /\ hashes = EmptyDict
    /\ draft = NoDraft
    /\ requests = <<>>
    /\ posts = {}

-----------------------------------------------------------------------------
(* register_client *)

\* a variant that registers the client before it looks at redirect_uris
RegisterClientStoreAlways(client_name, redirect_uris) ==
    StoreRegisterClient(client_name, redirect_uris)

\* lines 509-518: the registrations after register_client
RegisterClientStore(client_name, redirect_uris) ==
    IF redirect_uris = <<>> THEN clients ELSE StoreRegisterClient(client_name, redirect_uris)

\* lines 520-525: the OAuthClientInfo register_client returns
OAuthClientInfo(client_name, redirect_uris) ==
    [client_id |-> NextClientId,
     client_secret |-> NextClientSecret,
     client_name |-> client_name,
     redirect_uris |-> redirect_uris]

RegisterClient(client_metadata) ==
    /\ Cardinality(clients) < MaxClients
    /\ LET client_name == DictGet(client_metadata, "client_name", "Unknown Client")
           redirect_uris == DictGet(client_metadata, "redirect_uris", <<>>)
       IN /\ clients' = RegisterClientStore(client_name, redirect_uris)
          /\ returned' = Return("register_client", client_metadata,
                              IF redirect_uris = <<>>
                              THEN Err("invalid_redirect_uri")
                              ELSE Ok(OAuthClientInfo(client_name, redirect_uris)))
    /\ UNCHANGED <<elsewhere, proxy_mode, pending, cache, store_codes, ext_tokens, issued, now,
                   tasks, steps, flows, minted, exchanged>>

-----------------------------------------------------------------------------
(* authorize *)

\* self._pending_authorizations.get(state, {}).get("user_id")
PendingUserId(state) ==
    IF state \in DOMAIN pending /\ "user_id" \in DOMAIN pending[state]
    THEN pending[state].user_id
    ELSE None

\* the entry authorize stores under the generated state
PendingEntry(params, state) ==
    [mcp_client_id |-> params.client_id,
     mcp_redirect_uri |-> params.redirect_uri,
     mcp_state |-> state,
     mcp_scope |-> params.scope,
     mcp_code_challenge |-> params.code_challenge,
     mcp_code_challenge_method |-> params.code_challenge_method]

\* linkedin_state = secrets.token_urlsafe(32): the next draw
NextState == TokenUrlsafe(Cardinality(DOMAIN flows) + 1)

\* the user has a LinkedIn token that has not expired (lines 164-170)
AlreadyLinked(user_id) ==
    /\ Truthy(user_id)
    /\ user_id \in DOMAIN ext_tokens
    /\ ~is_external_token_expired(user_id)

\* a variant that embeds the caller's state in the URL
AuthorizeRedirectCallerState(state, linkedin_state) ==
    [authorization_url |-> get_authorization_url(state),
     state |-> linkedin_state,
     requires_external_authorization |-> TRUE]

\* what authorize returns when it redirects to LinkedIn
AuthorizeRedirect(state, linkedin_state) ==
    [authorization_url |-> get_authorization_url(linkedin_state),
     state |-> linkedin_state,
     requires_external_authorization |-> TRUE]

\* a variant that stores the entry under the caller's state
AuthorizeStoreByCallerState(params, state, linkedin_state) ==
    With(pending, state, PendingEntry(params, state))

\* the pending table once authorize has stored its entry
AuthorizeStore(params, state, linkedin_state) ==
    With(pending, linkedin_state, PendingEntry(params, state))

\* a variant that stores the entry before the client is validated
AuthorizePendingEarly(params, client_valid, state, linkedin_state) ==
    AuthorizeStore(params, state, linkedin_state)

\* the pending table after authorize, by the outcome of validate_client
AuthorizePending(params, client_valid, state, linkedin_state) ==
    IF client_valid THEN AuthorizeStore(params, state, linkedin_state) ELSE pending

Authorize(params) ==
    /\ CanStep
    /\ LET client_valid == validate_client(params.client_id, params.redirect_uri)
           state == OrElse(params.state, "")
           user_id == PendingUserId(state)
           linkedin_state == NextState
       IN IF ~client_valid
          THEN /\ returned' = Return("authorize", params, Err("invalid_client"))
               /\ pending' = AuthorizePending(params, client_valid, state, linkedin_state)
               /\ UNCHANGED <<flows, store_codes, minted, steps>>
          ELSE IF AlreadyLinked(user_id)
          THEN \* lines 171-188: a code is minted without a redirect
               /\ store_codes' = With(store_codes, NextCode,
                      CodeRecord(user_id, params.client_id, params.redirect_uri, params.scope,
                                 params.code_challenge, params.code_challenge_method))
               /\ minted' = With(minted, NextCode,
                                  [state |-> state, user_id |-> user_id, retry |-> FALSE,
                                   born |-> now])
               /\ pending' = Without(pending, state)
               /\ returned' = Return("authorize", params, Ok([code |-> NextCode, state |-> state]))
               /\ steps' = steps + 1
               /\ UNCHANGED flows
          ELSE \* lines 190-212: redirect to LinkedIn
               /\ pending' = AuthorizePending(params, client_valid, state, linkedin_state)
               /\ flows' = With(flows, linkedin_state,
                                 [params |-> params, born |-> now, failed |-> FALSE])
               /\ returned' = Return("authorize", params, Ok(AuthorizeRedirect(state, linkedin_state)))
               /\ steps' = steps + 1
               /\ UNCHANGED <<store_codes, minted>>
    /\ UNCHANGED <<elsewhere, proxy_mode, cache, clients, ext_tokens, issued, now, tasks, exchanged>>

-----------------------------------------------------------------------------
(* handle_external_callback *)

\* a missing entry: what dict.get returns for an unknown key
NoPending == PendingEntry(Params(None, None, None, None, None, None), None)

\* pending = self._pending_authorizations.get(state)
PendingGet(state) == IF state \in DOMAIN pending THEN pending[state] ELSE NoPending

\* a variant without the check
CallbackAdmitsAny(state) == TRUE

\* lines 555-556: "if not pending: raise ValueError"
CallbackAdmits(state) == PendingGet(state) # NoPending

\* a callback of the flow has failed at LinkedIn's code exchange
Failed(state) == state \in DOMAIN flows /\ flows[state].failed

\* lines 553-560: up to the await of exchange_code_for_token
CallbackStart(state) ==
    /\ CanStep /\ CanSpawn
    /\ IF ~CallbackAdmits(state)
       THEN /\ returned' = Return("callback", [state |-> state], Err("invalid_state"))
            /\ UNCHANGED <<tasks, steps>>
       ELSE /\ steps' = steps + 1
            /\ tasks' = Spawn([op |-> "callback", pc |-> "exchange_code_for_token",
                               state |-> state, pending |-> PendingGet(state),
                               started |-> now, retry |-> Failed(state)])
            /\ returned' = NoReturn
    /\ UNCHANGED <<elsewhere, proxy_mode, pending, cache, clients, store_codes, ext_tokens, issued,
                   now, flows, minted, exchanged>>

\* a variant that links a token although the callback fails
CallbackFailureLinksOrphan(r) ==
    With(ext_tokens, "u1", ExternalToken("li_at1", None, DefaultExpiresIn))

\* lines 561-562 and 568-569: a callback that raises at one of the two calls
\* to LinkedIn has linked nothing; the external tokens it leaves
CallbackFailureLinks(r) == ext_tokens

\* lines 558-566: LinkedIn answers the code exchange, or the call raises
CallbackExchanged(r) ==
    /\ r.op = "callback" /\ r.pc = "exchange_code_for_token"
    /\ \/ /\ returned' = Return("callback", [state |-> r.state], Err("exchange_failed"))
          /\ tasks' = Finish(r)
          /\ ext_tokens' = CallbackFailureLinks(r)
          /\ flows' = [flows EXCEPT ![r.state].failed = TRUE]
       \/ \E tok \in LinkedInTokens :
            /\ tasks' = Resume(r, [op |-> "callback", pc |-> "get_user_info",
                                   state |-> r.state, pending |-> r.pending,
                                   started |-> r.started, retry |-> r.retry,
                                   linkedin_token |-> tok])
            /\ returned' = NoReturn
            /\ UNCHANGED <<ext_tokens, flows>>
    /\ UNCHANGED <<elsewhere, steps, proxy_mode, pending, cache, clients, store_codes, issued,
                   now, minted, exchanged>>

\* lines 564-572: LinkedIn answers the user-info lookup, or the call raises
CallbackUserInfo(r) ==
    /\ r.op = "callback" /\ r.pc = "get_user_info"
    /\ \/ /\ returned' = Return("callback", [state |-> r.state], Err("user_info_failed"))
          /\ tasks' = Finish(r)
          /\ ext_tokens' = CallbackFailureLinks(r)
       \/ /\ tasks' = Resume(r, [op |-> "callback", pc |-> "link_external_token",
                                 state |-> r.state, pending |-> r.pending,
                                 started |-> r.started, retry |-> r.retry,
                                 linkedin_token |-> r.linkedin_token,
                                 user_id |-> UserOf(r.linkedin_token.access_token)])
          /\ returned' = NoReturn
          /\ UNCHANGED ext_tokens
    /\ UNCHANGED <<elsewhere, steps, proxy_mode, pending, cache, clients, store_codes, issued,
                   now, flows, minted, exchanged>>

\* a variant that keeps the token already linked for the user
CallbackLinkKeepsFirst(r) ==
    IF r.user_id \in DOMAIN ext_tokens
    THEN ext_tokens
    ELSE With(ext_tokens, r.user_id,
              ExternalToken(r.linkedin_token.access_token,
                            r.linkedin_token.refresh_token,
                            r.linkedin_token.expires_in))

\* lines 573-578: link_external_token(user_id, access_token, refresh_token,
\* expires_in); the store replaces the user's record as a whole
CallbackLink(r) ==
    With(ext_tokens, r.user_id,
         ExternalToken(r.linkedin_token.access_token,
                       r.linkedin_token.refresh_token,
                       r.linkedin_token.expires_in))

\* lines 571-581: link_external_token writes the store
CallbackLinked(r) ==
    /\ r.op = "callback" /\ r.pc = "link_external_token"
    /\ ext_tokens' = CallbackLink(r)
    /\ tasks' = Resume(r, [op |-> "callback", pc |-> "create_authorization_code",
                           state |-> r.state, pending |-> r.pending,
                           started |-> r.started, retry |-> r.retry,
                           linkedin_token |-> r.linkedin_token,
                           user_id |-> r.user_id, linked |-> now])
    /\ returned' = NoReturn
    /\ UNCHANGED <<elsewhere, steps, proxy_mode, pending, cache, clients, store_codes, issued,
                   now, flows, minted, exchanged>>

\* a variant that binds the code to the state instead of the scope
CallbackCodeRecordNoScope(user_id, p) ==
    CodeRecord(user_id, p.mcp_client_id, p.mcp_redirect_uri, p.mcp_state,
               p.mcp_code_challenge, p.mcp_code_challenge_method)

\* the code record the callback binds to the pending flow (lines 580-601)
CallbackCodeRecord(user_id, p) ==
    CodeRecord(user_id, p.mcp_client_id, p.mcp_redirect_uri, p.mcp_scope,
               p.mcp_code_challenge, p.mcp_code_challenge_method)

\* a variant that returns the state the entry is stored under
CallbackResultCorrelationState(mcp_code, p) ==
    [code |-> mcp_code,
     state |-> CHOOSE g \in DOMAIN pending : pending[g] = p,
     redirect_uri |-> p.mcp_redirect_uri]

\* what a callback returns to the caller (lines 606-610)
CallbackResult(mcp_code, p) ==
    [code |-> mcp_code, state |-> p.mcp_state, redirect_uri |-> p.mcp_redirect_uri]

\* lines 603-604: del self._pending_authorizations[state]
CallbackCleanup(state) == Without(pending, state)

\* lines 580-610: create_authorization_code writes the store; the code is
\* cached, the pending entry deleted, the code returned.  del raises KeyError
\* when another callback deleted the entry meanwhile.
CallbackMinted(r) ==
    /\ r.op = "callback" /\ r.pc = "create_authorization_code"
    /\ LET mcp_code == NextCode
           rec == CallbackCodeRecord(r.user_id, r.pending)
       IN /\ store_codes' = With(store_codes, mcp_code, rec)
          /\ cache' = With(cache, mcp_code, rec)
          /\ minted' = With(minted, mcp_code,
                            [state |-> r.state, user_id |-> r.user_id, retry |-> r.retry,
                             born |-> now])
          /\ exchanged' = With(exchanged, mcp_code, <<>>)
          /\ IF r.state \in DOMAIN pending
             THEN /\ pending' = CallbackCleanup(r.state)
                  /\ returned' = Return("callback", [state |-> r.state],
                                     Ok(CallbackResult(mcp_code, r.pending)))
             ELSE /\ UNCHANGED pending
                  /\ returned' = Return("callback", [state |-> r.state], Err("KeyError"))
    /\ tasks' = Finish(r)
    /\ UNCHANGED <<elsewhere, steps, proxy_mode, clients, ext_tokens, issued, now, flows>>

-----------------------------------------------------------------------------
(* exchange_authorization_code *)

\* a variant that does not compare client_id and redirect_uri
CacheOutcomeUnbound(code, client_id, redirect_uri, code_verifier) ==
    IF code \notin DOMAIN cache THEN "absent"
    ELSE IF ~(now - cache[code].created_at < CodeTTL) THEN "expired"
    ELSE IF /\ Truthy(cache[code].code_challenge)
            /\ Truthy(cache[code].code_challenge_method)
            /\ ~Truthy(code_verifier)
         THEN "verifier_required"
    ELSE "hit"

\* a variant that never takes a cached code for expired
CacheOutcomeNoExpiry(code, client_id, redirect_uri, code_verifier) ==
    IF code \notin DOMAIN cache THEN "absent"
    ELSE IF ~(cache[code].client_id = client_id /\ cache[code].redirect_uri = redirect_uri)
         THEN "mismatch"
    ELSE IF /\ Truthy(cache[code].code_challenge)
            /\ Truthy(cache[code].code_challenge_method)
            /\ ~Truthy(code_verifier)
         THEN "verifier_required"
    ELSE "hit"

\* lines 244-270: what the look-up in _authorization_code_cache comes to
CacheOutcome(code, client_id, redirect_uri, code_verifier) ==
    IF code \notin DOMAIN cache THEN "absent"
    ELSE IF ~(now - cache[code].created_at < CodeTTL) THEN "expired"
    ELSE IF ~(cache[code].client_id = client_id /\ cache[code].redirect_uri = redirect_uri)
         THEN "mismatch"
    ELSE IF /\ Truthy(cache[code].code_challenge)
            /\ Truthy(cache[code].code_challenge_method)
            /\ ~Truthy(code_verifier)
         THEN "verifier_required"
    ELSE "hit"

\* a variant that drops the entry whenever the look-up does not hit
CacheAfterDropsRejected(code, outcome) ==
    IF outcome = "absent" THEN cache ELSE Without(cache, code)

\* a variant that leaves a code that was hit in the cache
CacheAfterKeepsHit(code, outcome) ==
    IF outcome = "expired" THEN Without(cache, code) ELSE cache

\* lines 266 and 270: the cache after the look-up
CacheAfter(code, outcome) ==
    IF outcome \in {"hit", "expired"} THEN Without(cache, code) ELSE cache

\* a variant that hands out the LinkedIn refresh token as the access token
ProxyTokenOther(linkedin_token_data, code_data) ==
    [access_token |-> linkedin_token_data.refresh_token,
     token_type |-> "Bearer",
     expires_in |-> linkedin_token_data.expires_in,
     refresh_token |-> linkedin_token_data.refresh_token,
     scope |-> code_data.scope]

\* the OAuthToken of proxy mode (lines 309-315)
ProxyToken(linkedin_token_data, code_data) ==
    [access_token |-> linkedin_token_data.access_token,
     token_type |-> "Bearer",
     expires_in |-> linkedin_token_data.expires_in,
     refresh_token |-> linkedin_token_data.refresh_token,
     scope |-> code_data.scope]

\* the OAuthToken of standard mode (lines 324-330)
StandardToken(tok, code_data) ==
    [access_token |-> tok.access_token,
     token_type |-> "Bearer",
     expires_in |-> 3600,
     refresh_token |-> tok.refresh_token,
     scope |-> code_data.scope]

\* lines 240-279: the cache look-up, up to the first await
ExchangeStart(code, client_id, redirect_uri, code_verifier) ==
    /\ CanStep /\ CanSpawn
    /\ LET args == [code |-> code, client_id |-> client_id,
                    redirect_uri |-> redirect_uri, code_verifier |-> code_verifier]
           outcome == CacheOutcome(code, client_id, redirect_uri, code_verifier)
       IN /\ cache' = CacheAfter(code, outcome)
          /\ IF outcome = "verifier_required"
             THEN /\ returned' = ExchangeReturn(args, Exchanged(code), Err("invalid_grant"))
                  /\ UNCHANGED <<tasks, steps>>
             ELSE /\ returned' = NoReturn
                  /\ steps' = steps + 1
                  /\ tasks' = Spawn(
                         IF outcome = "hit"
                         THEN [op |-> "exchange", pc |-> "issue", args |-> args,
                               prior |-> Exchanged(code), code_data |-> cache[code]]
                         ELSE [op |-> "exchange", pc |-> "validate_authorization_code",
                               args |-> args, prior |-> Exchanged(code)])
    /\ UNCHANGED <<elsewhere, proxy_mode, pending, clients, store_codes, ext_tokens, issued,
                   now, flows, minted, exchanged>>

\* lines 273-287: the token store validates and consumes the code, or not
ExchangeValidated(r) ==
    /\ r.op = "exchange" /\ r.pc = "validate_authorization_code"
    /\ LET a == r.args
       IN IF StoreCodeValid(a.code, a.client_id, a.redirect_uri, a.code_verifier)
          THEN /\ store_codes' = Without(store_codes, a.code)
               /\ tasks' = Resume(r, [op |-> "exchange", pc |-> "issue", args |-> a,
                                      prior |-> r.prior, code_data |-> store_codes[a.code]])
               /\ returned' = NoReturn
          ELSE /\ returned' = ExchangeReturn(a, r.prior, Err("invalid_grant"))
               /\ tasks' = Finish(r)
               /\ UNCHANGED store_codes
    /\ UNCHANGED <<elsewhere, steps, proxy_mode, pending, cache, clients, ext_tokens, issued,
                   now, flows, minted, exchanged>>

\* lines 289-330: the token is made and returned
ExchangeIssued(r) ==
    /\ r.op = "exchange" /\ r.pc = "issue"
    /\ LET a == r.args
           code_data == r.code_data
           user_id == code_data.user_id
           tok == NewAccessToken(user_id, a.client_id, code_data.scope)
       IN IF proxy_mode
          THEN /\ IF user_id \in DOMAIN ext_tokens
                  THEN /\ returned' = ExchangeReturn(a, r.prior,
                                          Ok(ProxyToken(ext_tokens[user_id], code_data)))
                       /\ exchanged' = [exchanged EXCEPT ![a.code] = Append(@, a.code_verifier)]
                  ELSE /\ returned' = ExchangeReturn(a, r.prior, Err("invalid_grant"))
                       /\ UNCHANGED exchanged
               /\ UNCHANGED issued
          ELSE /\ issued' = issued \cup {tok}
               /\ returned' = ExchangeReturn(a, r.prior, Ok(StandardToken(tok, code_data)))
               /\ exchanged' = [exchanged EXCEPT ![a.code] = Append(@, a.code_verifier)]
    /\ tasks' = Finish(r)
    /\ UNCHANGED <<elsewhere, steps, proxy_mode, pending, cache, clients, store_codes, ext_tokens,
                   now, flows, minted>>

-----------------------------------------------------------------------------
(* validate_access_token *)

\* token_store.validate_access_token(token) knows the token
StoreTokenValid(token) == \E t \in issued : t.access_token = token

\* token_store.validate_access_token(token): the token's data
StoreTokenData(token) ==
    LET t == CHOOSE t \in issued : t.access_token = token
    IN [user_id |-> t.user_id, client_id |-> t.client_id, scope |-> t.scope]

\* token_store.update_external_token: the record is replaced as a whole
StoreUpdateExternalToken(user_id, access_token, refresh_token, expires_in) ==
    With(ext_tokens, user_id, ExternalToken(access_token, refresh_token, expires_in))

\* the access tokens LinkedIn has handed out
LinkedInAccessTokens == {"li_at1", "li_at2", "li_at3"}

\* token responses of LinkedIn's accessToken endpoint to a refresh: with and
\* without a new refresh token and a lifetime
RefreshResponses ==
    { [access_token |-> "li_at3"],
      [access_token |-> "li_at3", refresh_token |-> "li_rt3", expires_in |-> CodeTTL] }

\* no refresh response
NoRefresh == EmptyDict

\* the refresh a validate_access_token made: the refresh token it presented
\* and LinkedIn's answer
Refreshed(refresh_token, new_token) ==
    [refresh_token |-> refresh_token, new_token |-> new_token]

\* a validate_access_token returning; refresh is the refresh the invocation
\* made, if it made one
ValidateReturn(token, refresh, r) ==
    [op |-> "validate", args |-> [token |-> token], refresh |-> refresh, result |-> r]

\* a variant that takes the member from somewhere other than the lookup of
\* the presented token
ProxyValidationOtherUser(token) ==
    [user_id |-> "u1", external_access_token |-> token, valid |-> TRUE]

\* lines 430-434: what validate_access_token returns in proxy mode
ProxyValidation(token) ==
    [user_id |-> UserOf(token), external_access_token |-> token, valid |-> TRUE]

\* lines 488-491: {**token_data, "external_access_token": ...}
StandardValidation(token_data, linkedin_token_data) ==
    [user_id |-> token_data.user_id, client_id |-> token_data.client_id,
     scope |-> token_data.scope,
     external_access_token |-> linkedin_token_data.access_token]

\* lines 420-443: up to the first await
ValidateStart(token) ==
    /\ CanSpawn
    /\ tasks' = Spawn([op |-> "validate",
                       pc |-> IF proxy_mode THEN "get_user_info" ELSE "validate_access_token",
                       token |-> token])
    /\ returned' = NoReturn
    /\ UNCHANGED <<elsewhere, steps, proxy_mode, pending, cache, clients, store_codes, ext_tokens,
                   issued, now, flows, minted, exchanged>>

\* lines 424-440: proxy mode; LinkedIn answers the user-info lookup, or the call raises
ValidateUserInfo(r) ==
    /\ r.op = "validate" /\ r.pc = "get_user_info"
    /\ \/ returned' = ValidateReturn(r.token, NoRefresh, Err("invalid_token"))
       \/ /\ r.token \in LinkedInAccessTokens
          /\ returned' = ValidateReturn(r.token, NoRefresh, Ok(ProxyValidation(r.token)))
    /\ tasks' = Finish(r)
    /\ UNCHANGED <<elsewhere, steps, proxy_mode, pending, cache, clients, store_codes, ext_tokens,
                   issued, now, flows, minted, exchanged>>

\* lines 443-453: the token store answers for the local token
ValidateLocal(r) ==
    /\ r.op = "validate" /\ r.pc = "validate_access_token"
    /\ IF ~StoreTokenValid(r.token)
       THEN /\ returned' = ValidateReturn(r.token, NoRefresh, Err("invalid_token"))
            /\ tasks' = Finish(r)
       ELSE /\ returned' = NoReturn
            /\ tasks' = Resume(r, [op |-> "validate", pc |-> "get_external_token",
                                   token |-> r.token,
                                   token_data |-> StoreTokenData(r.token)])
    /\ UNCHANGED <<elsewhere, steps, proxy_mode, pending, cache, clients, store_codes, ext_tokens,
                   issued, now, flows, minted, exchanged>>

\* lines 453-461: the token store answers with the linked LinkedIn token
ValidateLinked(r) ==
    /\ r.op = "validate" /\ r.pc = "get_external_token"
    /\ IF r.token_data.user_id \notin DOMAIN ext_tokens
       THEN /\ returned' = ValidateReturn(r.token, NoRefresh, Err("insufficient_scope"))
            /\ tasks' = Finish(r)
       ELSE /\ returned' = NoReturn
            /\ tasks' = Resume(r, [op |-> "validate", pc |-> "is_external_token_expired",
                                   token |-> r.token, token_data |-> r.token_data,
                                   linkedin_token_data |-> ext_tokens[r.token_data.user_id]])
    /\ UNCHANGED <<elsewhere, steps, proxy_mode, pending, cache, clients, store_codes, ext_tokens,
                   issued, now, flows, minted, exchanged>>

\* a variant that serves the expired LinkedIn token when there is no refresh
\* token
ExpiredWithoutRefreshServed(r) ==
    Ok(StandardValidation(r.token_data, r.linkedin_token_data))

\* lines 482-486: the LinkedIn token has expired and there is no refresh token
ExpiredWithoutRefresh(r) == Err("invalid_token")

\* lines 461-466 and 482-491: the token store answers whether the LinkedIn
\* token has expired
ValidateExpiry(r) ==
    /\ r.op = "validate" /\ r.pc = "is_external_token_expired"
    /\ IF ~is_external_token_expired(r.token_data.user_id)
       THEN /\ returned' = ValidateReturn(r.token, NoRefresh,
                               Ok(StandardValidation(r.token_data, r.linkedin_token_data)))
            /\ tasks' = Finish(r)
       ELSE IF Truthy(r.linkedin_token_data.refresh_token)
       THEN /\ returned' = NoReturn
            /\ tasks' = Resume(r, [r EXCEPT !.pc = "refresh_access_token"])
       ELSE /\ returned' = ValidateReturn(r.token, NoRefresh, ExpiredWithoutRefresh(r))
            /\ tasks' = Finish(r)
    /\ UNCHANGED <<elsewhere, steps, proxy_mode, pending, cache, clients, store_codes, ext_tokens,
                   issued, now, flows, minted, exchanged>>

\* lines 466-467 and 477-481: LinkedIn answers the refresh, or the call raises
ValidateRefreshed(r) ==
    /\ r.op = "validate" /\ r.pc = "refresh_access_token"
    /\ \/ /\ returned' = ValidateReturn(r.token, NoRefresh, Err("invalid_token"))
          /\ tasks' = Finish(r)
       \/ \E new_token \in RefreshResponses :
            /\ returned' = NoReturn
            /\ tasks' = Resume(r, [op |-> "validate", pc |-> "update_external_token",
                                   token |-> r.token, token_data |-> r.token_data,
                                   linkedin_token_data |-> r.linkedin_token_data,
                                   new_token |-> new_token])
    /\ UNCHANGED <<elsewhere, steps, proxy_mode, pending, cache, clients, store_codes, ext_tokens,
                   issued, now, flows, minted, exchanged>>

\* lines 467-474: update_external_token writes the store
ValidateUpdated(r) ==
    /\ r.op = "validate" /\ r.pc = "update_external_token"
    /\ ext_tokens' = StoreUpdateExternalToken(
           r.token_data.user_id,
           r.new_token.access_token,
           DictGet(r.new_token, "refresh_token", r.linkedin_token_data.refresh_token),
           DictGet(r.new_token, "expires_in", DefaultExpiresIn))
    /\ tasks' = Resume(r, [r EXCEPT !.pc = "get_external_token_again"])
    /\ returned' = NoReturn
    /\ UNCHANGED <<elsewhere, steps, proxy_mode, pending, cache, clients, store_codes,
                   issued, now, flows, minted, exchanged>>

\* a variant that keeps the token read before the refresh
ReloadExternalTokenStale(r) == r.linkedin_token_data

\* lines 474-476: linkedin_token_data = await get_external_token(...)
ReloadExternalToken(r) == ext_tokens[r.token_data.user_id]

\* lines 474-491: the token store answers with the refreshed token
ValidateReloaded(r) ==
    /\ r.op = "validate" /\ r.pc = "get_external_token_again"
    /\ returned' = ValidateReturn(r.token,
                       Refreshed(r.linkedin_token_data.refresh_token, r.new_token),
                       Ok(StandardValidation(r.token_data, ReloadExternalToken(r))))
    /\ tasks' = Finish(r)
    /\ UNCHANGED <<elsewhere, steps, proxy_mode, pending, cache, clients, store_codes, ext_tokens,
                   issued, now, flows, minted, exchanged>>

-----------------------------------------------------------------------------
(* exchange_refresh_token *)

\* the refresh tokens LinkedIn has handed out
LinkedInRefreshTokens == {"li_rt2", "li_rt3"}

\* token_store.refresh_access_token(refresh_token) knows the refresh token
StoreRefreshValid(refresh_token) ==
    Truthy(refresh_token) /\ \E t \in issued : t.refresh_token = refresh_token

\* token_store.refresh_access_token(refresh_token): the new pair, for the
\* user, client and scope of the pair the refresh token belongs to
StoreRefreshResult(refresh_token) ==
    LET t == CHOOSE t \in issued : t.refresh_token = refresh_token
    IN NewAccessToken(t.user_id, t.client_id, t.scope)

\* token_store.refresh_access_token(refresh_token): the store afterwards; the
\* refresh token presented is used up and the new pair is recorded
StoreRefreshAccessToken(refresh_token) ==
    LET t == CHOOSE t \in issued : t.refresh_token = refresh_token
    IN (issued \ {t}) \cup {[t EXCEPT !.refresh_token = None],
                             StoreRefreshResult(refresh_token)}

\* an exchange_refresh_token returning; underlying is what the underlying
\* refresh answered (NoRefresh when it failed)
RefreshReturn(args, underlying, r) ==
    [op |-> "refresh", args |-> args, underlying |-> underlying, result |-> r]

\* a variant that hands back the refresh token presented instead of the
\* provider's new one
ProxyRefreshTokenKeepsOld(new_token, refresh_token, scope) ==
    [access_token |-> new_token.access_token,
     token_type |-> "Bearer",
     expires_in |-> DictGet(new_token, "expires_in", DefaultExpiresIn),
     refresh_token |-> refresh_token,
     scope |-> scope]

\* lines 365-372: the OAuthToken of proxy mode
ProxyRefreshToken(new_token, refresh_token, scope) ==
    [access_token |-> new_token.access_token,
     token_type |-> "Bearer",
     expires_in |-> DictGet(new_token, "expires_in", DefaultExpiresIn),
     refresh_token |-> DictGet(new_token, "refresh_token", refresh_token),
     scope |-> scope]

\* a variant that answers a failed store refresh with a token made of the
\* refresh token presented
StandardRefreshResultLenient(result, refresh_token, scope) ==
    Ok([access_token |-> IF result = NoRefresh THEN refresh_token ELSE result.access_token,
        token_type |-> "Bearer",
        expires_in |-> 3600,
        refresh_token |-> IF result = NoRefresh THEN refresh_token ELSE result.refresh_token,
        scope |-> scope])

\* lines 384-398: what exchange_refresh_token returns in standard mode for the
\* store's answer
StandardRefreshResult(result, refresh_token, scope) ==
    IF result = NoRefresh
    THEN Err("invalid_grant")
    ELSE Ok([access_token |-> result.access_token,
             token_type |-> "Bearer",
             expires_in |-> 3600,
             refresh_token |-> result.refresh_token,
             scope |-> scope])

\* lines 356-361 and 381-382: up to the first await
RefreshStart(refresh_token, client_id, scope) ==
    /\ CanStep /\ CanSpawn
    /\ steps' = steps + 1
    /\ tasks' = Spawn([op |-> "refresh",
                       pc |-> IF proxy_mode THEN "refresh_access_token"
                                            ELSE "store_refresh_access_token",
                       args |-> [refresh_token |-> refresh_token,
                                 client_id |-> client_id, scope |-> scope]])
    /\ returned' = NoReturn
    /\ UNCHANGED <<elsewhere, proxy_mode, pending, cache, clients, store_codes, ext_tokens,
                   issued, now, flows, minted, exchanged>>

\* lines 361-379: proxy mode; LinkedIn answers the refresh, or the call raises
RefreshProxied(r) ==
    /\ r.op = "refresh" /\ r.pc = "refresh_access_token"
    /\ \/ returned' = RefreshReturn(r.args, NoRefresh, Err("invalid_grant"))
       \/ \E new_token \in RefreshResponses :
            /\ r.args.refresh_token \in LinkedInRefreshTokens
            /\ returned' = RefreshReturn(r.args, new_token,
                               Ok(ProxyRefreshToken(new_token, r.args.refresh_token,
                                                    r.args.scope)))
    /\ tasks' = Finish(r)
    /\ UNCHANGED <<elsewhere, steps, proxy_mode, pending, cache, clients, store_codes, ext_tokens,
                   issued, now, flows, minted, exchanged>>

\* lines 382-398: standard mode; the token store answers the refresh
RefreshStored(r) ==
    /\ r.op = "refresh" /\ r.pc = "store_refresh_access_token"
    /\ LET result == IF StoreRefreshValid(r.args.refresh_token)
                     THEN StoreRefreshResult(r.args.refresh_token)
                     ELSE NoRefresh
       IN /\ issued' = IF result = NoRefresh THEN issued
                       ELSE StoreRefreshAccessToken(r.args.refresh_token)
          /\ returned' = RefreshReturn(r.args, result,
                             StandardRefreshResult(result, r.args.refresh_token,
                                                   r.args.scope))
    /\ tasks' = Finish(r)
    /\ UNCHANGED <<elsewhere, steps, proxy_mode, pending, cache, clients, store_codes, ext_tokens,
                   now, flows, minted, exchanged>>

-----------------------------------------------------------------------------
(* The clock. *)

Tick ==
    /\ CanStep
    /\ steps' = steps + 1
    /\ now' = now + TickStep
    /\ returned' = NoReturn
    /\ UNCHANGED <<elsewhere, proxy_mode, pending, cache, clients, store_codes, ext_tokens, issued,
                   tasks, flows, minted, exchanged>>

-----------------------------------------------------------------------------

Next ==
    \/ \E client_metadata \in RegisterInputs : RegisterClient(client_metadata)
    \/ \E params \in AuthorizeInputs : Authorize(params)
    \/ \E state \in CallbackStates : CallbackStart(state)
    \/ \E r \in Suspended : CallbackExchanged(r)
    \/ \E r \in Suspended : CallbackUserInfo(r)
    \/ \E r \in Suspended : CallbackLinked(r)
    \/ \E r \in Suspended : CallbackMinted(r)
    \/ \E inp \in ExchangeInputs : ExchangeStart(inp[1], inp[2], inp[3], inp[4])
    \/ \E r \in Suspended : ExchangeValidated(r)
    \/ \E r \in Suspended : ExchangeIssued(r)
    \/ Tick

Spec == Init /\ [][Next]_vars

-----------------------------------------------------------------------------
(* The handlers called one after another: a handler is called only when no
   other is in flight.  Token validation is part of this specification. *)

\* no handler is in flight
Idle == tasks = EmptyBag

\* AuthorizationParams of the sequential flows
AuthorizeInputsSeq ==
    { Params(StoreClientId(1), "r1", "s1", "profile", None, None),
      Params(StoreClientId(1), "r1", None, "w_member_social", "h1", "S256") }

\* what an exchange presents in the sequential flows: the right client,
\* redirect URI and verifier
ExchangeInputsSeq == { <<c, StoreClientId(1), "r1", "v1">> : c \in DOMAIN minted }

\* the token validate_access_token is given: a local access token, a LinkedIn
\* access token, or one never handed out
ValidateInputs ==
    {t.access_token : t \in issued}
        \cup {ext_tokens[u].access_token : u \in DOMAIN ext_tokens}
        \cup {"bad"}

\* what exchange_refresh_token is given: a refresh token of the token store,
\* one of LinkedIn, or one never handed out; the caller's scope or none
RefreshInputs ==
    { <<rt, StoreClientId(1), scope>> :
        rt \in ({t.refresh_token : t \in issued} \ {None})
                   \cup {ext_tokens[u].refresh_token : u \in DOMAIN ext_tokens}
                   \cup {"li_rt2", "bad"},
        scope \in {None, "profile"} }

NextSeq ==
    \/ \E client_metadata \in RegisterInputsMore : Idle /\ RegisterClient(client_metadata)
    \/ \E params \in AuthorizeInputsSeq : Idle /\ Authorize(params)
    \/ \E state \in DOMAIN flows : Idle /\ CallbackStart(state)
    \/ \E r \in Suspended : CallbackExchanged(r)
    \/ \E r \in Suspended : CallbackUserInfo(r)
    \/ \E r \in Suspended : CallbackLinked(r)
    \/ \E r \in Suspended : CallbackMinted(r)
    \/ \E inp \in ExchangeInputsSeq : Idle /\ ExchangeStart(inp[1], inp[2], inp[3], inp[4])
    \/ \E r \in Suspended : ExchangeValidated(r)
    \/ \E r \in Suspended : ExchangeIssued(r)
    \/ \E token \in ValidateInputs : Idle /\ ValidateStart(token)
    \/ \E r \in Suspended : ValidateUserInfo(r)
    \/ \E r \in Suspended : ValidateLocal(r)
    \/ \E r \in Suspended : ValidateLinked(r)
    \/ \E r \in Suspended : ValidateExpiry(r)
    \/ \E r \in Suspended : ValidateRefreshed(r)
    \/ \E r \in Suspended : ValidateUpdated(r)
    \/ \E r \in Suspended : ValidateReloaded(r)
    \/ \E inp \in RefreshInputs : Idle /\ RefreshStart(inp[1], inp[2], inp[3])
    \/ \E r \in Suspended : RefreshProxied(r)
    \/ \E r \in Suspended : RefreshStored(r)
    \/ Tick

SpecSeq == Init /\ [][NextSeq]_vars

-----------------------------------------------------------------------------
(* Authorization flows whose callbacks overlap while time passes: the flows
   up to the minting of their codes, with a clock that is not charged to the
   handlers' budget. *)

\* the clock of the overlapping callbacks: these flows see the time only in
\* the expiry stamped on a linked token, so time passes while a callback is
\* about to link
Elapse ==
    /\ now < MaxElapse * TickStep
    /\ \E r \in Suspended : r.op = "callback" /\ r.pc = "link_external_token"
    /\ now' = now + TickStep
    /\ returned' = NoReturn
    /\ UNCHANGED <<elsewhere, steps, proxy_mode, pending, cache, clients, store_codes, ext_tokens,
                   issued, tasks, flows, minted, exchanged>>

\* the registration and the AuthorizationParams of the overlapping flows
RegisterInputsLink == {[client_name |-> "app", redirect_uris |-> <<"r1">>]}
AuthorizeInputsLink == {Params(StoreClientId(1), "r1", "s1", "profile", None, None)}

NextLink ==
    \/ \E client_metadata \in RegisterInputsLink : RegisterClient(client_metadata)
    \/ \E params \in AuthorizeInputsLink : Authorize(params)
    \/ \E state \in DOMAIN flows : CallbackStart(state)
    \/ \E r \in Suspended : CallbackExchanged(r)
    \/ \E r \in Suspended : CallbackUserInfo(r)
    \/ \E r \in Suspended : CallbackLinked(r)
    \/ \E r \in Suspended : CallbackMinted(r)
    \/ Elapse

SpecLink == Init /\ [][NextLink]_vars

-----------------------------------------------------------------------------
(* A second LinkedInOAuthProvider instance of the same process.  It has its
   own token store and shares _authorization_code_cache, which is a module
   global; here it is given the codes the first instance minted. *)

\* the exchanges on the second instance that returned a token for a code so far
PeerExchanged(code) ==
    IF code \in DOMAIN peer_exchanged THEN peer_exchanged[code] ELSE <<>>

\* an exchange on the second instance returning
PeerExchangeReturn(args, prior, r) ==
    [op |-> "peer_exchange", args |-> args, prior |-> prior, result |-> r]

\* the second store's validate_authorization_code accepts the code
PeerStoreCodeValid(code, client_id, redirect_uri, code_verifier) ==
    /\ code \in DOMAIN peer_store_codes
    /\ now - peer_store_codes[code].created_at < CodeTTL
    /\ peer_store_codes[code].client_id = client_id
    /\ peer_store_codes[code].redirect_uri = redirect_uri
    /\ PkceOk(peer_store_codes[code], code_verifier)

\* the second store's create_access_token(user_id, client_id, scope)
PeerNewAccessToken(user_id, client_id, scope) ==
    [access_token |-> StoreAccessToken(Cardinality(peer_issued) + 1),
     refresh_token |-> StoreRefreshToken(Cardinality(peer_issued) + 1),
     user_id |-> user_id, client_id |-> client_id, scope |-> scope]

\* lines 240-273 on the second instance: the look-up in the shared cache
PeerExchangeStart(code, client_id, redirect_uri, code_verifier) ==
    /\ CanStep /\ CanSpawn
    /\ LET args == [code |-> code, client_id |-> client_id,
                    redirect_uri |-> redirect_uri, code_verifier |-> code_verifier]
           outcome == CacheOutcome(code, client_id, redirect_uri, code_verifier)
       IN /\ cache' = CacheAfter(code, outcome)
          /\ IF outcome = "verifier_required"
             THEN /\ returned' = PeerExchangeReturn(args, PeerExchanged(code),
                                                    Err("invalid_grant"))
                  /\ UNCHANGED <<tasks, steps>>
             ELSE /\ returned' = NoReturn
                  /\ steps' = steps + 1
                  /\ tasks' = Spawn(
                         IF outcome = "hit"
                         THEN [op |-> "peer_exchange", pc |-> "issue", args |-> args,
                               prior |-> PeerExchanged(code), code_data |-> cache[code]]
                         ELSE [op |-> "peer_exchange", pc |-> "validate_authorization_code",
                               args |-> args, prior |-> PeerExchanged(code)])
    /\ UNCHANGED <<appvars, peervars, proxy_mode, pending, clients, store_codes,
                   ext_tokens, issued, now, flows, minted, exchanged>>

\* lines 273-287 on the second instance: its token store validates and
\* consumes the code, or not
PeerExchangeValidated(r) ==
    /\ r.op = "peer_exchange" /\ r.pc = "validate_authorization_code"
    /\ LET a == r.args
       IN IF PeerStoreCodeValid(a.code, a.client_id, a.redirect_uri, a.code_verifier)
          THEN /\ peer_store_codes' = Without(peer_store_codes, a.code)
               /\ tasks' = Resume(r, [op |-> "peer_exchange", pc |-> "issue", args |-> a,
                                      prior |-> r.prior,
                                      code_data |-> peer_store_codes[a.code]])
               /\ returned' = NoReturn
          ELSE /\ returned' = PeerExchangeReturn(a, r.prior, Err("invalid_grant"))
               /\ tasks' = Finish(r)
               /\ UNCHANGED peer_store_codes
    /\ UNCHANGED <<appvars, peer_ext_tokens, peer_issued, peer_exchanged, steps,
                   proxy_mode, pending, cache, clients, store_codes, ext_tokens, issued,
                   now, flows, minted, exchanged>>

\* lines 289-330 on the second instance: the token is made and returned
PeerExchangeIssued(r) ==
    /\ r.op = "peer_exchange" /\ r.pc = "issue"
    /\ LET a == r.args
           code_data == r.code_data
           user_id == code_data.user_id
           tok == PeerNewAccessToken(user_id, a.client_id, code_data.scope)
           recorded == With(peer_exchanged, a.code,
                            Append(PeerExchanged(a.code), a.code_verifier))
       IN IF proxy_mode
          THEN /\ IF user_id \in DOMAIN peer_ext_tokens
                  THEN /\ returned' = PeerExchangeReturn(a, r.prior,
                                          Ok(ProxyToken(peer_ext_tokens[user_id], code_data)))
                       /\ peer_exchanged' = recorded
                  ELSE /\ returned' = PeerExchangeReturn(a, r.prior, Err("invalid_grant"))
                       /\ UNCHANGED peer_exchanged
               /\ UNCHANGED peer_issued
          ELSE /\ peer_issued' = peer_issued \cup {tok}
               /\ returned' = PeerExchangeReturn(a, r.prior, Ok(StandardToken(tok, code_data)))
               /\ peer_exchanged' = recorded
    /\ tasks' = Finish(r)
    /\ UNCHANGED <<appvars, peer_store_codes, peer_ext_tokens, steps,
                   proxy_mode, pending, cache, clients, store_codes, ext_tokens, issued,
                   now, flows, minted, exchanged>>

\* the AuthorizationParams of the flows of the first instance: with PKCE
AuthorizeInputsShared ==
    { Params(StoreClientId(1), "r1", "s1", "w_member_social", "h1", "S256") }

\* what an exchange on the second instance presents: the right client and
\* redirect URI, with and without a verifier
PeerExchangeInputs ==
    { <<code, StoreClientId(1), "r1", code_verifier>> :
        code \in DOMAIN minted, code_verifier \in {"v1", None} }

NextShared ==
    \/ \E client_metadata \in RegisterInputsLink : RegisterClient(client_metadata)
    \/ \E params \in AuthorizeInputsShared : Authorize(params)
    \/ \E state \in DOMAIN flows : CallbackStart(state)
    \/ \E r \in Suspended : CallbackExchanged(r)
    \/ \E r \in Suspended : CallbackUserInfo(r)
    \/ \E r \in Suspended : CallbackLinked(r)
    \/ \E r \in Suspended : CallbackMinted(r)
    \/ \E inp \in ExchangeInputsSeq : ExchangeStart(inp[1], inp[2], inp[3], inp[4])
    \/ \E r \in Suspended : ExchangeValidated(r)
    \/ \E r \in Suspended : ExchangeIssued(r)
    \/ \E inp \in PeerExchangeInputs : PeerExchangeStart(inp[1], inp[2], inp[3], inp[4])
    \/ \E r \in Suspended : PeerExchangeValidated(r)
    \/ \E r \in Suspended : PeerExchangeIssued(r)
    \/ Tick

SpecShared == Init /\ [][NextShared]_vars

-----------------------------------------------------------------------------
(* linkedin_publish (tools/publishing_tools.py).  Texts are sequences of
   characters. *)

\* publishing_tools.py:82  length of content_preview
PreviewLen == 500

\* texts of a draft: one in commentary, one composed, one longer than a preview
Commentary == <<"h", "i">>
Composed == <<"H", "i", "!">>
LongText == [i \in 1..(PreviewLen + 1) |-> "x"]

\* the drafts the manager can hold: content without text, with commentary
\* only (composed_text empty), with both, and with composed_text only
Drafts ==
    { [draft_id |-> "d1", content |-> content] :
        content \in { [commentary |-> <<>>],
                      [composed_text |-> <<>>, commentary |-> Commentary],
                      [composed_text |-> Composed, commentary |-> Commentary],
                      [composed_text |-> LongText] } }

\* what linkedin_publish is called with: visibility, dry_run and the token
\* the middleware injected (or none)
PublishInputs ==
    { <<"PUBLIC", dry_run, token>> : dry_run \in BOOLEAN, token \in {None, "li_at1"} }
        \cup { <<"CONNECTIONS", TRUE, "li_at1">> }

\* a variant that prefers the commentary
PostTextCommentaryFirst(content) ==
    IF DictGet(content, "commentary", <<>>) # <<>>
    THEN content.commentary
    ELSE DictGet(content, "composed_text", <<>>)

\* line 68: content.get("composed_text") or content.get("commentary", "")
PostText(content) ==
    IF DictGet(content, "composed_text", <<>>) # <<>>
    THEN content.composed_text
    ELSE DictGet(content, "commentary", <<>>)

\* line 82: post_text[:500] + ("..." if len(post_text) > 500 else "")
ContentPreview(post_text) ==
    IF Len(post_text) > PreviewLen
    THEN SubSeq(post_text, 1, PreviewLen) \o <<".", ".", ".">>
    ELSE post_text

\* lines 51-74: the error results
PublishError(error_type) == [status |-> "error", error_type |-> error_type]

\* lines 78-84: the result of a dry run
DryRun(visibility, post_text) ==
    [status |-> "dry_run",
     visibility |-> visibility,
     character_count |-> Len(post_text),
     content_preview |-> ContentPreview(post_text),
     full_content |-> post_text]

\* lines 140-147: the result of a publication
Published(post_id, visibility, post_text, person_urn) ==
    [status |-> "published",
     post_id |-> post_id,
     visibility |-> visibility,
     character_count |-> Len(post_text),
     author_urn |-> person_urn]

\* lines 114-117: the person URN of the "sub" of the userinfo response
PersonUrn(person_id) ==
    IF person_id = "urn:li:person:u1" THEN person_id ELSE "urn:li:person:u1"

\* the "sub" of LinkedIn's userinfo responses: none, an id, a URN
UserInfoSubs == {None, "u1", "urn:li:person:u1"}

\* the ids in LinkedIn's answers to the creation of a post: none, or one in
\* the x-restli-id header
PostIds == {None, "urn:li:share:1"}

\* the manager's current draft changes (drafts are made, composed and
\* dropped by other tools)
SetDraft(d) ==
    /\ CanStep
    /\ steps' = steps + 1
    /\ draft' = d
    /\ d # draft
    /\ returned' = NoReturn
    /\ UNCHANGED <<tasks, oauth_provider, hashes, requests, posts, peervars,
                   proxy_mode, pending, cache, clients, store_codes, ext_tokens,
                   issued, now, flows, minted, exchanged>>

\* lines 49-101: up to the first await, the GET of the user's profile
PublishStart(visibility, dry_run, token) ==
    LET args == [visibility |-> visibility, dry_run |-> dry_run, token |-> token]
        post_text == PostText(draft.content)
        early == IF draft = NoDraft THEN PublishError("no_draft")
                 ELSE IF ~Truthy(token) THEN PublishError("missing_oauth_token")
                 ELSE IF post_text = <<>> THEN PublishError("missing_content")
                 ELSE IF dry_run THEN DryRun(visibility, post_text)
                 ELSE NoReturn
    IN /\ IF early # NoReturn
          THEN /\ returned' = Return("linkedin_publish", args, early)
               /\ UNCHANGED <<steps, tasks, requests>>
          ELSE /\ CanStep /\ CanSpawn
               /\ steps' = steps + 1
               /\ requests' = Append(requests, [method |-> "GET", url |-> "userinfo",
                                                token |-> token])
               /\ tasks' = Spawn([op |-> "publish", pc |-> "userinfo", args |-> args,
                                  post_text |-> post_text])
               /\ returned' = NoReturn
       /\ UNCHANGED <<draft, posts, oauth_provider, hashes, peervars,
                      proxy_mode, pending, cache, clients, store_codes, ext_tokens,
                      issued, now, flows, minted, exchanged>>

\* lines 102-131 and posts.py 52-90: LinkedIn answers the profile request, or
\* the request fails; with a person URN the post is sent
PublishUserInfo(r) ==
    /\ r.op = "publish" /\ r.pc = "userinfo"
    /\ \/ /\ returned' = Return("linkedin_publish", r.args,
                                PublishError("userinfo_fetch_failed"))
          /\ tasks' = Finish(r)
          /\ UNCHANGED requests
       \/ \E person_id \in UserInfoSubs :
            IF ~Truthy(person_id)
            THEN /\ returned' = Return("linkedin_publish", r.args,
                                       PublishError("missing_person_id"))
                 /\ tasks' = Finish(r)
                 /\ UNCHANGED requests
            ELSE /\ requests' = Append(requests, [method |-> "POST", url |-> "posts",
                                                  token |-> r.args.token])
                 /\ tasks' = Resume(r, [op |-> "publish", pc |-> "create_text_post",
                                        args |-> r.args, post_text |-> r.post_text,
                                        person_urn |-> PersonUrn(person_id)])
                 /\ returned' = NoReturn
    /\ UNCHANGED <<steps, draft, posts, oauth_provider, hashes, peervars,
                   proxy_mode, pending, cache, clients, store_codes, ext_tokens,
                   issued, now, flows, minted, exchanged>>

\* lines 131-154 and posts.py 90-146: LinkedIn creates the post, or refuses
PublishPosted(r) ==
    /\ r.op = "publish" /\ r.pc = "create_text_post"
    /\ \/ /\ returned' = Return("linkedin_publish", r.args,
                                PublishError("linkedin_api_error"))
          /\ UNCHANGED posts
       \/ \E id \in PostIds :
            /\ posts' = posts \cup {[author |-> r.person_urn, commentary |-> r.post_text,
                                     visibility |-> r.args.visibility]}
            /\ returned' = Return("linkedin_publish", r.args,
                                  Published(OrElse(id, "unknown"), r.args.visibility,
                                            r.post_text, r.person_urn))
    /\ tasks' = Finish(r)
    /\ UNCHANGED <<steps, draft, requests, oauth_provider, hashes, peervars,
                   proxy_mode, pending, cache, clients, store_codes, ext_tokens,
                   issued, now, flows, minted, exchanged>>

NextPublish ==
    \/ \E d \in Drafts \cup {NoDraft} : SetDraft(d)
    \/ \E inp \in PublishInputs : PublishStart(inp[1], inp[2], inp[3])
    \/ \E r \in Suspended : PublishUserInfo(r)
    \/ \E r \in Suspended : PublishPosted(r)

SpecPublish == Init /\ [][NextPublish]_vars

-----------------------------------------------------------------------------
(* setup_oauth and the passthrough provider (async_server.py). *)

\* async_server.py:159  hash(token) % 10000
HashModulus == 10000

\* str.lower() of the values the environment variables take
Lower(s) == CASE s = "True" -> "true"
              [] s = "TRUE" -> "true"
              [] s = "False" -> "false"
              [] OTHER -> s

\* os.getenv(name, default) in the environment env (None: not set)
Getenv(env, name, default) == IF env[name] = None THEN default ELSE env[name]

\* the environments setup_oauth is called in
Environments ==
    { [OAUTH_PASSTHROUGH_MODE |-> p, OAUTH_ENABLED |-> e,
       LINKEDIN_CLIENT_ID |-> c[1], LINKEDIN_CLIENT_SECRET |-> c[2]] :
        p \in {None, "true", "True", "false", "1"},
        e \in {None, "false"},
        c \in {<<None, None>>, <<"id", None>>, <<"id", "secret">>} }

\* lines 143-145: PASSTHROUGH_MODE
PASSTHROUGH_MODE(env) == Lower(Getenv(env, "OAUTH_PASSTHROUGH_MODE", "false")) = "true"

\* lines 165-169: OAuth is enabled and the LinkedIn credentials are set
OAuthConfigured(env) ==
    /\ Lower(Getenv(env, "OAUTH_ENABLED", "true")) = "true"
    /\ Truthy(env.LINKEDIN_CLIENT_ID)
    /\ Truthy(env.LINKEDIN_CLIENT_SECRET)

\* lines 138-225: setup_oauth() in the environment env
setup_oauth(env) ==
    /\ oauth_provider' = IF PASSTHROUGH_MODE(env) THEN "PassthroughOAuthProvider"
                         ELSE IF OAuthConfigured(env) THEN "LinkedInOAuthProvider"
                         ELSE oauth_provider
    /\ returned' = Return("setup_oauth", env,
                          IF ~PASSTHROUGH_MODE(env) /\ OAuthConfigured(env)
                          THEN "OAuthMiddleware" ELSE None)
    /\ UNCHANGED <<hashes, draft, requests, posts, peervars, steps, tasks,
                   proxy_mode, pending, cache, clients, store_codes, ext_tokens,
                   issued, now, flows, minted, exchanged>>

\* lines 233-235: get_oauth_provider()
get_oauth_provider ==
    /\ returned' = Return("get_oauth_provider", EmptyDict, oauth_provider)
    /\ UNCHANGED <<appvars, peervars, steps, tasks,
                   proxy_mode, pending, cache, clients, store_codes, ext_tokens,
                   issued, now, flows, minted, exchanged>>

\* the tokens presented to the passthrough provider: a LinkedIn token, and
\* strings that are no token
PassthroughInputs == {"li_at1", "bad", ""}

\* the values hash() can give a string: two of them agree modulo 10000
HashValues == {7, 10007, 12}

\* f"passthrough_{n}"
PassthroughUserId(n) == <<"passthrough_", n>>

\* a variant that numbers the users by the order of their first call
PassthroughValidationNumbered(token, h) ==
    [external_access_token |-> token,
     user_id |-> PassthroughUserId(Cardinality(DOMAIN hashes) % HashModulus),
     valid |-> TRUE]

\* lines 157-161: what PassthroughOAuthProvider.validate_access_token
\* returns; h is hash(token)
PassthroughValidation(token, h) ==
    [external_access_token |-> token,
     user_id |-> PassthroughUserId(h % HashModulus),
     valid |-> TRUE]

\* lines 154-161: PassthroughOAuthProvider.validate_access_token(token);
\* hash() of a string is drawn when the process first hashes it and stays
\* the same for the life of the process
PassthroughValidate(token) ==
    /\ oauth_provider = "PassthroughOAuthProvider"
    /\ \E h \in HashValues :
         /\ token \in DOMAIN hashes => h = hashes[token]
         /\ hashes' = With(hashes, token, h)
         /\ returned' = Return("passthrough_validate", [token |-> token],
                               Ok(PassthroughValidation(token, h)))
    /\ UNCHANGED <<oauth_provider, draft, requests, posts, peervars, steps, tasks,
                   proxy_mode, pending, cache, clients, store_codes, ext_tokens,
                   issued, now, flows, minted, exchanged>>

NextServer ==
    \/ \E env \in Environments : setup_oauth(env)
    \/ get_oauth_provider
    \/ \E token \in PassthroughInputs : PassthroughValidate(token)

SpecServer == Init /\ [][NextServer]_vars

-----------------------------------------------------------------------------
(* Properties. *)

\* the flow, the user and the authorize parameters a code was minted for
FlowOf(code) == minted[code].state
ParamsOf(code) == flows[FlowOf(code)].params

\* the last step returned a token from exchange_authorization_code
TokenReturned == returned.op = "exchange" /\ returned.result.ok

\* the exchange that returned presented what the code was issued for
CorrectExchange ==
    /\ returned.args.client_id = ParamsOf(returned.args.code).client_id
    /\ returned.args.redirect_uri = ParamsOf(returned.args.code).redirect_uri
    /\ Truthy(ParamsOf(returned.args.code).code_challenge) =>
           S256(returned.args.code_verifier) = ParamsOf(returned.args.code).code_challenge

\* C1: of two successive exchanges of one code minted by
\* handle_external_callback, with the right client_id, redirect_uri and
\* code_verifier, only the first returns a token: an exchange called
\* after a token was returned for the code returns none.
C1_SecondExchangeFails ==
    (/\ TokenReturned
     /\ CorrectExchange
     /\ \A i \in DOMAIN returned.prior : returned.prior[i] = returned.args.code_verifier) =>
        returned.prior = <<>>

\* C2: of the exchanges of one code that are called before any of them has
\* returned, at most one returns a token.
C2_OneConcurrentExchangeWins ==
    (TokenReturned /\ returned.prior = <<>>) => Len(exchanged[returned.args.code]) = 1

\* the codes minted for a generated state
CodesOf(state) == {c \in DOMAIN minted : FlowOf(c) = state}

\* C3: at most one authorization code is ever minted per
\* PendingAuthorization, however the callbacks with its state interleave, and
\* a callback that loses fails with the invalid-state error.
C3_OneCodePerPending ==
    /\ \A g \in DOMAIN flows : Cardinality(CodesOf(g)) <= 1
    /\ (returned.op = "callback" /\ ~returned.result.ok) =>
           returned.result.error \in {"invalid_state", "exchange_failed", "user_info_failed"}

\* C4: a code recorded with a PKCE challenge is exchanged for a token only
\* with a code_verifier that hashes to the challenge.
C4_PkceVerified ==
    (TokenReturned /\ Truthy(ParamsOf(returned.args.code).code_challenge)) =>
        /\ Truthy(returned.args.code_verifier)
        /\ S256(returned.args.code_verifier) = ParamsOf(returned.args.code).code_challenge

\* C5: handle_external_callback goes on with a PendingAuthorization only if
\* the entry is no older than the TTL when the callback arrives; for an older
\* one it fails with the invalid-state error.
C5_ExpiredPendingRejected ==
    \A r \in Suspended :
        (r.op = "callback" /\ r.state \in DOMAIN flows) =>
            r.started - flows[r.state].born <= PendingTTL

\* an earlier flow with the same parameters has completed and the LinkedIn
\* token it linked has not expired
LinkedBefore(params, new_state) ==
    \E c \in DOMAIN minted :
        /\ FlowOf(c) \in DOMAIN flows
        /\ FlowOf(c) # new_state
        /\ FlowOf(c) \notin DOMAIN pending
        /\ ParamsOf(c) = params
        /\ minted[c].user_id \in DOMAIN ext_tokens
        /\ ~is_external_token_expired(minted[c].user_id)

\* C6: authorize for a caller whose earlier flow linked a LinkedIn token that
\* has not expired returns {code, state}, without a redirect and without a
\* new PendingAuthorization.
C6_LinkedUserShortCircuits ==
    (/\ returned.op = "authorize"
     /\ returned.result.ok
     /\ LinkedBefore(returned.args, returned.result.value.state)) =>
        /\ "code" \in DOMAIN returned.result.value
        /\ returned.result.value.state \notin DOMAIN pending

\* the stores an operation may write: the pending table, the token store and
\* the code cache
Stores == <<pending, cache, clients, store_codes, ext_tokens, issued>>

\* C7: authorize for a (client_id, redirect_uri) pair the store does not
\* validate fails with invalid_client and leaves the pending table, the
\* token store and the code cache as they were.
C7_InvalidClientRejected ==
    [][(/\ returned'.op = "authorize"
        /\ ~validate_client(returned'.args.client_id, returned'.args.redirect_uri)) =>
           /\ returned'.result = Err("invalid_client")
           /\ UNCHANGED Stores]_vars

C7_Witness ==
    /\ returned.op = "authorize"
    /\ returned.result = Err("invalid_client")
    /\ returned.args.client_id = StoreClientId(1)
    /\ clients # {}
    /\ DOMAIN pending # {}

\* C8: authorize by a registered client, no LinkedIn token being linked,
\* returns requires_external_authorization = TRUE, a state never generated
\* before and an authorization URL whose state parameter is that state; the
\* pending table gains exactly one entry, under that state, holding the
\* caller's client_id, redirect_uri, state, scope and PKCE challenge.
C8_AuthorizeRedirects ==
    [][(/\ returned'.op = "authorize"
        /\ validate_client(returned'.args.client_id, returned'.args.redirect_uri)
        /\ DOMAIN ext_tokens = {}) =>
           LET p == returned'.args
               v == returned'.result.value
           IN /\ returned'.result.ok
              /\ v.requires_external_authorization = TRUE
              /\ v.state \notin DOMAIN flows
              /\ v.state \notin DOMAIN pending
              /\ UnquotePlus(v.authorization_url.query.state) = v.state
              /\ DOMAIN pending' = DOMAIN pending \cup {v.state}
              /\ \A k \in DOMAIN pending : pending'[k] = pending[k]
              /\ pending'[v.state] =
                    [mcp_client_id |-> p.client_id,
                     mcp_redirect_uri |-> p.redirect_uri,
                     mcp_state |-> OrElse(p.state, ""),
                     mcp_scope |-> p.scope,
                     mcp_code_challenge |-> p.code_challenge,
                     mcp_code_challenge_method |-> p.code_challenge_method]]_vars

C8_Witness ==
    /\ returned.op = "authorize"
    /\ returned.result.ok
    /\ DOMAIN ext_tokens = {}
    /\ returned.args.state = None
    /\ returned.args.code_challenge = "h1"
    /\ returned.result.value.state = TokenUrlsafe(2)
    /\ DOMAIN pending = {TokenUrlsafe(1), TokenUrlsafe(2)}

\* a callback was rejected at once: it returned without having been suspended
RejectedAtOnce ==
    /\ returned'.op = "callback"
    /\ tasks' = tasks
    /\ returned'.args.state \notin DOMAIN pending

\* C9: handle_external_callback with a state that has no PendingAuthorization
\* fails with the invalid-state error before any call to LinkedIn (it is never
\* suspended at one), and leaves the pending table, the token store and the
\* code cache as they were.
C9_UnknownStateRejected ==
    [][/\ \A r \in BagToSet(tasks') :
             (r.op = "callback" /\ r.pc = "exchange_code_for_token"
                  /\ CopiesIn(r, tasks') > CopiesIn(r, tasks)) =>
                 r.state \in DOMAIN pending
       /\ RejectedAtOnce =>
             /\ returned'.result = Err("invalid_state")
             /\ UNCHANGED Stores]_vars

C9_Witness ==
    /\ returned.op = "callback"
    /\ returned.args.state = "unknown-state"
    /\ returned.result = Err("invalid_state")
    /\ DOMAIN pending # {}
    /\ DOMAIN ext_tokens # {}
    /\ DOMAIN cache # {}

\* C10: the token that exchange_authorization_code returns for a code minted
\* by handle_external_callback has the scope that was passed to the authorize
\* call of that flow, in standard mode and in proxy mode.
C10_ScopeRoundTrip ==
    TokenReturned => returned.result.value.scope = ParamsOf(returned.args.code).scope

C10_Witness ==
    /\ TokenReturned
    /\ proxy_mode
    /\ returned.result.value.scope = "w_member_social"

\* C11: in proxy mode no step creates a local access/refresh token record,
\* and the access_token a successful exchange_authorization_code returns is
\* the access token of the external token linked to the user of the code.
C11_ProxyReturnsExternalToken ==
    [][proxy_mode =>
          /\ issued' = issued
          /\ (returned'.op = "exchange" /\ returned'.result.ok) =>
                LET user_id == minted[returned'.args.code].user_id
                IN /\ user_id \in DOMAIN ext_tokens
                   /\ returned'.result.value.access_token = ext_tokens[user_id].access_token]_vars

C11_Witness ==
    /\ TokenReturned
    /\ proxy_mode
    /\ issued = {}
    /\ returned.result.value.access_token = "li_at2"
    /\ returned.result.value.refresh_token = "li_rt2"

\* C12: in proxy mode, once a flow has completed (callback, then a successful
\* exchange_authorization_code), the token store holds no external token for
\* the user of the flow.
C12_ProxyKeepsNoExternalToken ==
    (TokenReturned /\ proxy_mode) =>
        minted[returned.args.code].user_id \notin DOMAIN ext_tokens

\* the last step returned from a validate_access_token that had refreshed the
\* LinkedIn token: the local token was valid, the linked LinkedIn token had
\* expired and had a refresh token, and LinkedIn answered the refresh
RefreshedValidation ==
    /\ returned.op = "validate"
    /\ ~proxy_mode
    /\ returned.refresh # NoRefresh

\* C13: in standard mode, validate_access_token on a valid local token whose
\* LinkedIn token has expired and has a refresh token, the refresh
\* succeeding, returns without error; external_access_token is the refreshed
\* access token, and the store's LinkedIn token of the user is the refreshed
\* one, replaced as a whole.
C13_ExpiredExternalTokenRefreshed ==
    RefreshedValidation =>
        /\ returned.result.ok
        /\ LET user_id == StoreTokenData(returned.args.token).user_id
               new_token == returned.refresh.new_token
           IN /\ returned.result.value.user_id = user_id
              /\ returned.result.value.external_access_token = new_token.access_token
              /\ ext_tokens[user_id].access_token = new_token.access_token
              /\ ext_tokens[user_id].expires_in =
                     DictGet(new_token, "expires_in", DefaultExpiresIn)
              /\ ext_tokens[user_id].refresh_token =
                     DictGet(new_token, "refresh_token", returned.refresh.refresh_token)

C13_Witness ==
    /\ RefreshedValidation
    /\ returned.result.ok
    /\ returned.result.value.external_access_token = "li_at3"
    /\ returned.refresh = Refreshed("li_rt2", [access_token |-> "li_at3"])
    /\ now = TickStep

\* a callback task took a step: it was resumed or it finished
Stepped(r) == r.op = "callback" /\ CopiesIn(r, tasks') < CopiesIn(r, tasks)

\* C14: a handle_external_callback that fails at LinkedIn's code exchange or
\* at the user-info lookup has written nothing: the step in which it fails
\* leaves the stores as they were, and an external token, an authorization
\* code or a cache entry is only ever written by a callback whose user_id
\* has been resolved, which can no longer fail at one of the two calls.
C14_FailedCallbackWritesNothing ==
    [][/\ (/\ returned'.op = "callback"
           /\ returned'.result \in {Err("exchange_failed"), Err("user_info_failed")}) =>
              /\ UNCHANGED Stores
              /\ \E r \in Suspended :
                    Stepped(r) /\ r.state = returned'.args.state /\ "user_id" \notin DOMAIN r
       /\ (\/ ext_tokens' # ext_tokens
           \/ ~(DOMAIN store_codes' \subseteq DOMAIN store_codes)
           \/ ~(DOMAIN cache' \subseteq DOMAIN cache)) =>
              \E r \in Suspended : Stepped(r) /\ "user_id" \in DOMAIN r]_vars

C14_Witness ==
    /\ returned.op = "callback"
    /\ returned.result = Err("user_info_failed")
    /\ DOMAIN ext_tokens = {}
    /\ DOMAIN store_codes = {}
    /\ DOMAIN cache = {}
    /\ returned.args.state \in DOMAIN pending

\* C15: a successful handle_external_callback returns the state (the empty
\* string if there was none) and the redirect_uri the caller passed to the
\* authorize call of the flow, not the generated state the callback was
\* called with, together with a code that did not exist before and is in the
\* token store afterwards.
C15_CallbackReturnsCallerState ==
    [][(returned'.op = "callback" /\ returned'.result.ok) =>
          LET g == returned'.args.state
              p == flows[g].params
              v == returned'.result.value
          IN /\ v.state = OrElse(p.state, "")
             /\ v.redirect_uri = p.redirect_uri
             /\ p.state # g => v.state # g
             /\ v.code \notin DOMAIN minted
             /\ v.code \notin DOMAIN store_codes
             /\ v.code \in DOMAIN store_codes'
             /\ minted'[v.code].state = g]_vars

C15_Witness ==
    /\ returned.op = "callback"
    /\ returned.result.ok
    /\ returned.args.state = TokenUrlsafe(2)
    /\ returned.result.value.state = "s1"
    /\ returned.result.value.redirect_uri = "r1"
    /\ returned.result.value.code = StoreCode(1)

\* C16: an exchange_authorization_code that presents a code minted by
\* handle_external_callback with another client_id or another redirect_uri
\* than those of the flow fails with invalid_grant and returns no token.
C16_CodeBoundToClient ==
    (/\ returned.op = "exchange"
     /\ returned.args.code \in DOMAIN minted
     /\ \/ returned.args.client_id # ParamsOf(returned.args.code).client_id
        \/ returned.args.redirect_uri # ParamsOf(returned.args.code).redirect_uri) =>
        returned.result = Err("invalid_grant")

C16_Witness ==
    /\ returned.op = "exchange"
    /\ returned.result = Err("invalid_grant")
    /\ returned.args.redirect_uri = "r2"
    /\ returned.args.code \in DOMAIN cache
    /\ returned.args.code \in DOMAIN store_codes
    /\ now - cache[returned.args.code].created_at < CodeTTL

\* an exchange task had its code accepted in this step, by the cache or by
\* the token store
Accepted(r) ==
    r.op = "exchange" /\ r.pc = "issue" /\ CopiesIn(r, tasks') > CopiesIn(r, tasks)

\* the exchange that returns in this step had its code looked up in this step
LookedUpNow ==
    \/ tasks' = tasks
    \/ \E r \in Suspended :
          /\ r.op = "exchange" /\ r.pc = "validate_authorization_code"
          /\ CopiesIn(r, tasks') < CopiesIn(r, tasks)

\* C17: a code is accepted by exchange_authorization_code only while it is
\* younger than 600 seconds; an exchange that looks the code up when it is
\* 600 seconds old or older fails with invalid_grant; and as time never runs
\* backwards, an expired code is never accepted afterwards.
C17_ExpiredCodeRejected ==
    [][/\ \A r \in BagToSet(tasks') :
             Accepted(r) => now - minted[r.args.code].born < CodeTTL
       /\ (/\ returned'.op = "exchange"
           /\ returned'.args.code \in DOMAIN minted
           /\ LookedUpNow
           /\ now - minted[returned'.args.code].born >= CodeTTL) =>
              returned'.result = Err("invalid_grant")
       /\ now' >= now]_vars

C17_Witness ==
    /\ returned.op = "exchange"
    /\ returned.result = Err("invalid_grant")
    /\ returned.args.code \in DOMAIN minted
    /\ CorrectExchange
    /\ returned.prior = <<>>
    /\ now - minted[returned.args.code].born >= CodeTTL
    /\ returned.args.code \notin DOMAIN cache

\* the pending authorization of a generated state has been removed
Consumed(g) == g \in DOMAIN flows /\ g \notin DOMAIN pending

\* when handle_external_callback succeeds for a state, the
\* PendingAuthorization of the state is gone; a state whose pending
\* authorization has been removed is never pending again; and every
\* handle_external_callback called with such a state afterwards is rejected
\* at the lookup with the invalid-state error
ConsumedStateStaysConsumed ==
    [][/\ (returned'.op = "callback" /\ returned'.result.ok) =>
              returned'.args.state \notin DOMAIN pending'
       /\ \A g \in DOMAIN flows : Consumed(g) => g \notin DOMAIN pending'
       /\ \A r \in BagToSet(tasks') :
             (/\ r.op = "callback" /\ r.pc = "exchange_code_for_token"
              /\ CopiesIn(r, tasks') > CopiesIn(r, tasks)) => ~Consumed(r.state)
       /\ (/\ returned'.op = "callback"
           /\ tasks' = tasks
           /\ Consumed(returned'.args.state)) =>
              returned'.result = Err("invalid_state")]_vars

\* the pending authorization of a generated state is older than the TTL
Expired(g) == g \in DOMAIN flows /\ now - flows[g].born > PendingTTL

\* C18: after handle_external_callback has succeeded for a state the
\* PendingAuthorization is gone and every later callback with the state
\* fails with the invalid-state error; and a state whose pending
\* authorization was removed or has expired is never pending again: no
\* callback called with it is admitted.
C18_RemovedOrExpiredNeverPending ==
    /\ ConsumedStateStaysConsumed
    /\ [][\A r \in BagToSet(tasks') :
              (/\ r.op = "callback" /\ r.pc = "exchange_code_for_token"
               /\ CopiesIn(r, tasks') > CopiesIn(r, tasks)) => ~Expired(r.state)]_vars

\* C19: once a handle_external_callback of a flow has failed at LinkedIn's
\* code exchange the attempt is over: no handle_external_callback called
\* with the same state afterwards issues an authorization code.
C19_FailedAttemptIsTerminal ==
    \A c \in DOMAIN minted : ~minted[c].retry

\* C20: register_client without redirect_uris, or with an empty list of
\* them, fails with invalid_redirect_uri and leaves the registrations and
\* every other store as they were; with redirect URIs it adds exactly one
\* registration, under a client_id not used before, and returns that
\* registration's client_id and client_secret with the client_name and the
\* redirect_uris it was given.
C20_RegisterClient ==
    [][returned'.op = "register_client" =>
          LET client_metadata == returned'.args
              redirect_uris == DictGet(client_metadata, "redirect_uris", <<>>)
              v == returned'.result.value
          IN IF redirect_uris = <<>>
             THEN /\ returned'.result = Err("invalid_redirect_uri")
                  /\ UNCHANGED Stores
             ELSE /\ returned'.result.ok
                  /\ clients \subseteq clients'
                  /\ Cardinality(clients' \ clients) = 1
                  /\ \A c \in clients' \ clients :
                        /\ c.client_id = v.client_id
                        /\ c.client_secret = v.client_secret
                        /\ c.client_id \notin {d.client_id : d \in clients}
                        /\ c.redirect_uris = {redirect_uris[i] : i \in DOMAIN redirect_uris}
                  /\ "client_name" \in DOMAIN client_metadata =>
                        v.client_name = client_metadata.client_name
                  /\ v.redirect_uris = redirect_uris
                  /\ UNCHANGED <<pending, cache, store_codes, ext_tokens, issued>>]_vars

C20_Witness ==
    /\ returned.op = "register_client"
    /\ returned.result.ok
    /\ returned.result.value.client_id = StoreClientId(1)
    /\ returned.result.value.client_secret = StoreClientSecret(1)
    /\ returned.result.value.client_name = "app"
    /\ returned.result.value.redirect_uris = <<"r1">>
    /\ Cardinality(clients) = 1

\* C21: exchange_refresh_token fails with invalid_grant whenever the
\* underlying refresh fails (LinkedIn's refresh call raises in proxy mode, the
\* token store knows no such refresh token in standard mode); no token is
\* returned and the stores stay as they were.
C21_FailedRefreshIsInvalidGrant ==
    [][(/\ returned'.op = "refresh"
        /\ returned'.underlying = NoRefresh)
       => /\ returned'.result = Err("invalid_grant")
          /\ UNCHANGED Stores]_vars

\* a refresh has failed in standard mode, with tokens issued
C21_Witness ==
    /\ ~proxy_mode /\ issued # {}
    /\ returned.op = "refresh" /\ returned.underlying = NoRefresh
    /\ ~returned.result.ok

\* a validate_access_token task took its last step
ValidateEnded(r) ==
    /\ r.op = "validate"
    /\ CopiesIn(r, tasks') < CopiesIn(r, tasks)
    /\ returned'.op = "validate"

\* the task is asking whether the LinkedIn token has expired: it has, and
\* the store holds no refresh token for it
ExpiredNoRefreshToken(r) ==
    /\ r.pc = "is_external_token_expired"
    /\ is_external_token_expired(r.token_data.user_id)
    /\ ~Truthy(ext_tokens[r.token_data.user_id].refresh_token)

\* the task is waiting for LinkedIn's refresh (so the local token was valid,
\* the LinkedIn token expired and a refresh token stored)
AwaitingRefresh(r) == r.pc = "refresh_access_token"

\* C22: in standard mode, validate_access_token on a valid local token whose
\* LinkedIn token has expired fails with invalid_token when no refresh token
\* is stored, and when LinkedIn's refresh call fails (the invocation ends at
\* that call); in both cases the stored LinkedIn token is the one the
\* invocation read.
C22_ExpiredUnrefreshedIsInvalidToken ==
    [][\A r \in Suspended :
          (/\ ValidateEnded(r)
           /\ ExpiredNoRefreshToken(r) \/ AwaitingRefresh(r))
          => /\ ~proxy_mode
             /\ StoreTokenValid(r.token)
             /\ returned' = ValidateReturn(r.token, NoRefresh, Err("invalid_token"))
             /\ UNCHANGED ext_tokens
             /\ ext_tokens'[r.token_data.user_id] = r.linkedin_token_data]_vars

\* a validation has failed for a valid local token whose LinkedIn token has
\* expired and has no refresh token
C22_Witness ==
    /\ ~proxy_mode
    /\ returned.op = "validate"
    /\ returned.result = Err("invalid_token")
    /\ StoreTokenValid(returned.args.token)
    /\ LET user_id == StoreTokenData(returned.args.token).user_id
       IN /\ user_id \in DOMAIN ext_tokens
          /\ is_external_token_expired(user_id)
          /\ ext_tokens[user_id].refresh_token = None

\* a validation has failed for a valid local token whose LinkedIn token has
\* expired and has a refresh token: the refresh call failed
RefreshFailedValidation ==
    /\ ~proxy_mode
    /\ returned.op = "validate"
    /\ returned.result = Err("invalid_token")
    /\ StoreTokenValid(returned.args.token)
    /\ LET user_id == StoreTokenData(returned.args.token).user_id
       IN /\ user_id \in DOMAIN ext_tokens
          /\ is_external_token_expired(user_id)
          /\ ext_tokens[user_id].refresh_token = "li_rt2"

\* the calls a validate_access_token task can be waiting for that go to the
\* token store
StoreCalls ==
    {"validate_access_token", "get_external_token", "is_external_token_expired",
     "update_external_token", "get_external_token_again"}

\* C23: in proxy mode validate_access_token never calls the token store and
\* leaves it as it was; it returns either the result of LinkedIn's user-info
\* lookup for the presented token (user_id the lookup's sub,
\* external_access_token the presented token), which only a token LinkedIn
\* knows can give, or the error invalid_token.
C23_ProxyValidationIsLookup ==
    /\ [](proxy_mode => \A r \in Suspended : r.op = "validate" => r.pc \notin StoreCalls)
    /\ [][(proxy_mode /\ returned'.op = "validate")
          => /\ UNCHANGED Stores
             /\ \E r \in Suspended :
                  /\ r.op = "validate" /\ r.pc = "get_user_info"
                  /\ r.token = returned'.args.token
                  /\ tasks' = Finish(r)
             /\ LET token == returned'.args.token
                IN IF returned'.result.ok
                   THEN /\ token \in LinkedInAccessTokens
                        /\ returned'.result.value.user_id = UserOf(token)
                        /\ returned'.result.value.external_access_token = token
                   ELSE returned'.result = Err("invalid_token")]_vars

\* a proxy-mode validation has succeeded for the token of member u2
C23_Witness ==
    /\ proxy_mode
    /\ returned.op = "validate"
    /\ returned.result.ok
    /\ returned.args.token = "li_at2"
    /\ returned.result.value.user_id = "u2"

\* the callback task r took a step from the call it was waiting for
CallbackStepped(r, pc) ==
    r.op = "callback" /\ r.pc = pc /\ CopiesIn(r, tasks') < CopiesIn(r, tasks)

\* the ExternalToken the callback task r wrote when it linked
Written(r) ==
    [access_token |-> r.linkedin_token.access_token,
     refresh_token |-> r.linkedin_token.refresh_token,
     expires_in |-> r.linkedin_token.expires_in,
     expires_at |-> r.linked + r.linkedin_token.expires_in]

\* C24 as stated: when a callback completes after another callback has
\* completed for the same user, the ExternalToken stored for the user is the
\* one the callback completing now wrote.
C24_LastCompletedWins ==
    [][\A r \in Suspended :
          (/\ CallbackStepped(r, "create_authorization_code")
           /\ returned'.result.ok
           /\ \E c \in DOMAIN minted : minted[c].user_id = r.user_id)
          => ext_tokens'[r.user_id] = Written(r)]_vars

\* C24, amended: the ExternalToken stored for a user is the one written by
\* the callback whose link_external_token happened last: a link replaces the
\* user's record as a whole with the linking callback's token and leaves the
\* other users' records alone, and no other step of any handler changes the
\* linked tokens, so an earlier token is never restored.
C24_LastWriteWins ==
    [][/\ \A r \in Suspended :
            CallbackStepped(r, "link_external_token")
            => /\ ext_tokens'[r.user_id] =
                      [access_token |-> r.linkedin_token.access_token,
                       refresh_token |-> r.linkedin_token.refresh_token,
                       expires_in |-> r.linkedin_token.expires_in,
                       expires_at |-> now + r.linkedin_token.expires_in]
               /\ \A u \in DOMAIN ext_tokens : u # r.user_id => ext_tokens'[u] = ext_tokens[u]
       /\ (ext_tokens' # ext_tokens)
            => \E r \in Suspended : CallbackStepped(r, "link_external_token")]_vars

\* a second callback has linked its token over the token an earlier callback
\* linked for the same user at another time
C24_Witness ==
    \E r \in Suspended :
        /\ r.op = "callback" /\ r.pc = "create_authorization_code"
        /\ r.user_id \in DOMAIN ext_tokens
        /\ ext_tokens[r.user_id].access_token = r.linkedin_token.access_token
        /\ ext_tokens[r.user_id] # Written(r)

C26_AuthorizeKeepsOtherFlows ==
    [][returned'.op = "authorize"
       => /\ \A g \in DOMAIN pending : g \in DOMAIN pending' /\ pending'[g] = pending[g]
          /\ \A g \in DOMAIN pending' \ DOMAIN pending :
                /\ g \notin DOMAIN flows
                /\ returned'.result.ok
                /\ returned'.result.value.state = g]_vars

\* an authorize has been given, as its state, the generated state of a flow
\* that is still pending, and has started a flow of its own
C26_Witness ==
    /\ returned.op = "authorize"
    /\ returned.result.ok
    /\ returned.args.state \in DOMAIN pending
    /\ returned.result.value.state \in DOMAIN pending
    /\ returned.result.value.state # returned.args.state
    /\ pending[returned.args.state].mcp_state # returned.args.state

\* C27: linkedin_publish with dry_run = true sends no request to LinkedIn,
\* leaves none to be sent later and creates no post; given an active draft,
\* an injected token and non-empty content it returns status dry_run whose
\* full_content is the draft's composed_text, or the draft's commentary when
\* composed_text is empty.
C27_DryRunSendsNothing ==
    /\ [](\A r \in Suspended : r.op = "publish" => ~r.args.dry_run)
    /\ [][(returned'.op = "linkedin_publish" /\ returned'.args.dry_run)
          => /\ UNCHANGED <<requests, posts, tasks>>
             /\ (/\ draft # NoDraft
                 /\ Truthy(returned'.args.token)
                 /\ \/ DictGet(draft.content, "composed_text", <<>>) # <<>>
                    \/ DictGet(draft.content, "commentary", <<>>) # <<>>)
                => /\ returned'.result.status = "dry_run"
                   /\ returned'.result.full_content =
                          IF DictGet(draft.content, "composed_text", <<>>) = <<>>
                          THEN draft.content.commentary
                          ELSE draft.content.composed_text]_vars

\* a dry run has returned the composed text of a draft that also has a
\* commentary, after a post was published
C27_Witness ==
    /\ returned.op = "linkedin_publish"
    /\ returned.args.dry_run
    /\ returned.result.status = "dry_run"
    /\ returned.result.full_content = Composed
    /\ draft.content.commentary = Commentary
    /\ posts # {}

\* a dry run has returned the commentary of a draft whose composed_text is empty
DryRunOfCommentary ==
    /\ returned.op = "linkedin_publish"
    /\ returned.args.dry_run
    /\ returned.result.status = "dry_run"
    /\ returned.result.full_content = Commentary
    /\ draft.content.composed_text = <<>>

\* C28: the authorization-code cache is shared by the provider instances of
\* the process: an exchange on the second instance returns a token only for
\* a code the first instance's callback minted, which the second instance's
\* token store never held and which the exchange found in the cache; and for
\* one code it returns a token at most once.
C28_SharedCacheSingleUse ==
    /\ [](\A code \in DOMAIN peer_exchanged : Len(peer_exchanged[code]) <= 1)
    /\ [][(returned'.op = "peer_exchange" /\ returned'.result.ok)
          => LET code == returned'.args.code
             IN /\ code \in DOMAIN minted
                /\ code \notin DOMAIN peer_store_codes
                /\ code \notin DOMAIN cache
                /\ returned'.prior = <<>>
                /\ returned'.result.value.scope = ParamsOf(code).scope
                /\ \E r \in Suspended :
                     /\ r.op = "peer_exchange" /\ r.pc = "issue"
                     /\ r.args = returned'.args
                     /\ r.code_data.user_id = minted[code].user_id
                     /\ r.code_data.created_at = minted[code].born]_vars

\* the second instance has returned a token for a code of the first, and a
\* later exchange of the same code on the second instance has been rejected
C28_Witness ==
    /\ returned.op = "peer_exchange"
    /\ ~returned.result.ok
    /\ returned.args.code \in DOMAIN minted
    /\ returned.args.code_verifier = "v1"
    /\ Len(PeerExchanged(returned.args.code)) = 1
    /\ returned.args.code \notin DOMAIN peer_store_codes

\* the code is in the cache and less than 600 seconds old
Cached(code) == code \in DOMAIN cache /\ now - cache[code].created_at < CodeTTL

\* the exchange arguments name the client and the redirect URI of the cached code
Matches(args) ==
    /\ cache[args.code].client_id = args.client_id
    /\ cache[args.code].redirect_uri = args.redirect_uri

\* the cached code was issued with PKCE and the arguments have no verifier
LacksVerifier(args) ==
    /\ Truthy(cache[args.code].code_challenge)
    /\ Truthy(cache[args.code].code_challenge_method)
    /\ ~Truthy(args.code_verifier)

\* the exchange task r was started in this step
ExchangeStarted(r) == r.op = "exchange" /\ CopiesIn(r, tasks') > CopiesIn(r, tasks)

\* the exchange task r took a step
ExchangeStepped(r) == r.op = "exchange" /\ CopiesIn(r, tasks') < CopiesIn(r, tasks)

\* C29: an exchange on a cached, unexpired code that names a wrong client_id
\* or redirect_uri, or lacks the code_verifier the code needs, is rejected
\* with invalid_grant and leaves the cache and the store's codes as they
\* were; an exchange on such a code with the right client_id and
\* redirect_uri and a verifier is not rejected: it takes the cache entry and
\* returns a token.
C29_RejectedExchangeKeepsCode ==
    [][/\ (returned'.op = "exchange" /\ tasks' = tasks /\ Cached(returned'.args.code))
          => /\ LacksVerifier(returned'.args) /\ Matches(returned'.args)
             /\ returned'.result = Err("invalid_grant")
             /\ UNCHANGED <<cache, store_codes>>
       /\ \A r \in BagToSet(tasks') :
            (ExchangeStarted(r) /\ Cached(r.args.code))
            => IF Matches(r.args)
               THEN /\ ~LacksVerifier(r.args)
                    /\ r.pc = "issue"
                    /\ r.code_data = cache[r.args.code]
               ELSE /\ r.pc = "validate_authorization_code"
                    /\ UNCHANGED <<cache, store_codes>>
       /\ \A r \in Suspended :
            ExchangeStepped(r)
            => /\ UNCHANGED cache
               /\ IF r.pc = "issue"
                  THEN returned'.result.ok /\ returned'.args = r.args
                  ELSE \/ returned'.op = "none"
                       \/ /\ returned'.result = Err("invalid_grant")
                          /\ UNCHANGED store_codes]_vars

\* an exchange that named a wrong client has been rejected, and the code is
\* still in the cache, unexpired, as the callback wrote it
C29_Witness ==
    /\ returned.op = "exchange"
    /\ returned.result = Err("invalid_grant")
    /\ returned.args.client_id = "nobody"
    /\ Cached(returned.args.code)
    /\ returned.args.code \in DOMAIN store_codes
    /\ cache[returned.args.code] = store_codes[returned.args.code]

\* the token store and the flows of the LinkedIn provider, and the requests
\* and posts of the publishing tool
Untouched ==
    <<pending, cache, clients, store_codes, ext_tokens, issued, flows, minted,
      exchanged, peervars, requests, posts, tasks>>

\* C30: when OAUTH_PASSTHROUGH_MODE is "true" (in any case of the letters),
\* setup_oauth installs the passthrough provider and returns no middleware;
\* that provider's validate_access_token never fails, whatever the token: it
\* returns at once, without a store or network call, the presented token as
\* external_access_token and a user_id that is the same every time the same
\* token is presented.
C30_PassthroughAcceptsEveryToken ==
    /\ [][(/\ returned'.op = "setup_oauth"
           /\ returned'.args.OAUTH_PASSTHROUGH_MODE \in {"true", "True", "TRUE"})
          => /\ oauth_provider' = "PassthroughOAuthProvider"
             /\ returned'.result = None]_vars
    /\ [][returned'.op = "passthrough_validate"
          => LET token == returned'.args.token
             IN /\ oauth_provider = "PassthroughOAuthProvider"
                /\ returned'.result.ok
                /\ returned'.result.value.valid
                /\ returned'.result.value.external_access_token = token
                /\ returned'.result.value.user_id =
                       PassthroughUserId(hashes'[token] % HashModulus)
                /\ \A t \in DOMAIN hashes : hashes'[t] = hashes[t]
                /\ UNCHANGED Untouched]_vars

\* the passthrough provider has accepted a string that is no token, whose
\* hash is above the modulus, after it had accepted a LinkedIn token
C30_Witness ==
    /\ oauth_provider = "PassthroughOAuthProvider"
    /\ returned.op = "passthrough_validate"
    /\ returned.args.token = "bad"
    /\ returned.result.ok
    /\ returned.result.value.external_access_token = "bad"
    /\ returned.result.value.user_id = PassthroughUserId(7)
    /\ hashes["bad"] = 10007
    /\ "li_at1" \in DOMAIN hashes

====
